---- MODULE Spec2Model ----
(***************************************************************************)
(* Cabinet: a multi-tenant key-value layer over a FoundationDB-style       *)
(* transactional store.  The store is a map from byte-string keys to       *)
(* byte-string values; the cabinet packs tenant, section and key into the  *)
(* store key with the tuple layer, stores bincode-encoded items and keeps  *)
(* two 8-byte little-endian counters per tenant with atomic adds.          *)
(***************************************************************************)
EXTENDS Integers, Sequences, FiniteSets, TLC

(***************************************************************************)
(* Bounds of the model.                                                    *)
(***************************************************************************)
MaxTxns == 3

MaxFaults == 1

MaxReads == 2

\* the number of commands in an input of the parser
MaxCommands == 2

\* the `iterations` option of a workload
MaxIterations == 2

\* pieces a read buffer is put together from
MaxTokens == 3

Procs == {1, 2}

Tenants == { <<97>>, <<97, 0, 20>> }

Keys == { <<107>>, <<0>> }

Values == { <<>>, <<118>> }

(***************************************************************************)
(* Option values: None is the empty sequence, Some(x) a one-element one.   *)
(***************************************************************************)
None == << >>

Some(x) == << x >>

(***************************************************************************)
(* Tuple layer (the encoding behind Subspace::subspace and Subspace::pack).*)
(***************************************************************************)
RECURSIVE Escape(_)
Escape(b) ==
  IF b = << >> THEN << >>
  ELSE IF Head(b) = 0 THEN <<0, 255>> \o Escape(Tail(b))
       ELSE <<Head(b)>> \o Escape(Tail(b))

PackStr(s) == <<2>> \o Escape(s) \o <<0>>

PackBytes(b) == <<1>> \o Escape(b) \o <<0>>

PackInt(n) == IF n = 0 THEN <<20>> ELSE <<21, n>>

Prefix_Data == 0

Prefix_Stats == 1

EntityType_Headcount == 0

EntityType_Sizes == 1

StatType_Value == 0

Subspace_all == << >>

Subspace_subspace(s, packed) == s \o packed

Subspace_pack(s, packed) == s \o packed

Subspace_range(s) == << s \o <<0>>, s \o <<255>> >>

RECURSIVE LexLess(_, _)
LexLess(a, b) ==
  IF b = << >> THEN FALSE
  ELSE IF a = << >> THEN TRUE
  ELSE IF Head(a) # Head(b) THEN Head(a) < Head(b)
  ELSE LexLess(Tail(a), Tail(b))

InRange(k, begin, end) == ~LexLess(k, begin) /\ LexLess(k, end)

(***************************************************************************)
(* Item codec (bincode, standard configuration: a byte vector is its       *)
(* length as one byte, for lengths below 251, followed by its bytes).      *)
(***************************************************************************)
Item_new(key, value) == [key |-> key, value |-> value]

as_bytes(item) ==
  <<Len(item.key)>> \o item.key \o <<Len(item.value)>> \o item.value

\* variant: the value is taken from the wrong offset
from_bytes_shifted(bytes) ==
  LET klen == bytes[1]
      vlen == bytes[2 + klen]
  IN  [key   |-> SubSeq(bytes, 2, 1 + klen),
       value |-> SubSeq(bytes, 2 + klen, 1 + klen + vlen)]

from_bytes(bytes) ==
  LET klen == bytes[1]
      vlen == bytes[2 + klen]
  IN  [key   |-> SubSeq(bytes, 2, 1 + klen),
       value |-> SubSeq(bytes, 3 + klen, 2 + klen + vlen)]

(***************************************************************************)
(* i64 <-> 8 little-endian bytes, and the store's Add mutation.            *)
(***************************************************************************)
RECURSIVE Digits(_, _)
Digits(n, len) ==
  IF len = 0 THEN << >> ELSE <<n % 256>> \o Digits(n \div 256, len - 1)

Complement(b) == [i \in 1..Len(b) |-> 255 - b[i]]

to_le_bytes(n) ==
  IF n >= 0 THEN Digits(n, 8) ELSE Complement(Digits((-n) - 1, 8))

RECURSIVE Horner(_)
Horner(b) == IF b = << >> THEN 0 ELSE Head(b) + 256 * Horner(Tail(b))

from_le_bytes(b) ==
  IF b[8] >= 128 THEN -(Horner(Complement(b))) - 1 ELSE Horner(b)

RECURSIVE AddLE(_, _, _)
AddLE(a, b, carry) ==
  IF b = << >> THEN << >>
  ELSE LET x == IF a = << >> THEN 0 ELSE Head(a)
           s == x + Head(b) + carry
       IN  <<s % 256>> \o
           AddLE(IF a = << >> THEN << >> ELSE Tail(a), Tail(b), s \div 256)

(***************************************************************************)
(* The backing store: a function from the keys present to their values.    *)
(* A mutation is [op, key, param]; for clear_range key and param are the   *)
(* begin and end of the range.                                             *)
(***************************************************************************)
StoreGet(s, k) == IF k \in DOMAIN s THEN Some(s[k]) ELSE None

StoreSet(s, k, v) == [x \in DOMAIN s \cup {k} |-> IF x = k THEN v ELSE s[x]]

StoreRestrict(s, keep) == [x \in keep |-> s[x]]

ZeroBytes(n) == [i \in 1..n |-> 0]

ApplyMutation(s, m) ==
  CASE m.op = "set"   -> StoreSet(s, m.key, m.param)
    [] m.op = "clear" -> StoreRestrict(s, DOMAIN s \ {m.key})
    [] m.op = "clear_range" ->
         StoreRestrict(s, {x \in DOMAIN s : ~InRange(x, m.key, m.param)})
    [] m.op = "add"   ->
         StoreSet(s, m.key,
                  AddLE(IF m.key \in DOMAIN s THEN s[m.key]
                        ELSE ZeroBytes(Len(m.param)), m.param, 0))

RECURSIVE ApplyAll(_, _)
ApplyAll(s, muts) ==
  IF muts = << >> THEN s ELSE ApplyAll(ApplyMutation(s, Head(muts)), Tail(muts))

\* does mutation m write key k (its write conflict range covers k)
Writes(m, k) ==
  IF m.op = "clear_range" THEN InRange(k, m.key, m.param) ELSE m.key = k

(***************************************************************************)
(* One attempt of a transaction.  T maps a transaction handle to the       *)
(* attempt's state: the store as of its read version, the buffered         *)
(* mutations, the read conflict keys and the options set.  Clones of a     *)
(* RetryableTransaction are the same handle.                               *)
(***************************************************************************)
NewTransaction(db) ==
  [reads |-> db, buffer |-> << >>, rc |-> {}, options |-> {}]

Transaction_set_option(T, h, opt) == [T EXCEPT ![h].options = @ \cup {opt}]

Transaction_set(T, h, k, v) ==
  [T EXCEPT ![h].buffer = Append(@, [op |-> "set", key |-> k, param |-> v])]

Transaction_clear(T, h, k) ==
  [T EXCEPT ![h].buffer = Append(@, [op |-> "clear", key |-> k, param |-> << >>])]

Transaction_clear_range(T, h, begin, end) ==
  [T EXCEPT ![h].buffer =
      Append(@, [op |-> "clear_range", key |-> begin, param |-> end])]

Transaction_atomic_op(T, h, k, param, mutation) ==
  [T EXCEPT ![h].buffer = Append(@, [op |-> mutation, key |-> k, param |-> param])]

\* a read sees the attempt's own writes over its read version; a read that
\* is not a snapshot read adds the key to the read conflict set
Transaction_get(T, h, k, snapshot) ==
  [T     |-> IF snapshot THEN T ELSE [T EXCEPT ![h].rc = @ \cup {k}],
   value |-> StoreGet(ApplyAll(T[h].reads, T[h].buffer), k)]

(***************************************************************************)
(* Results of the cabinet operations.                                      *)
(***************************************************************************)
Ok(T, item, stats) ==
  [T |-> T, ok |-> TRUE, item |-> item, stats |-> stats, err |-> ""]

Err(T, e) == [T |-> T, ok |-> FALSE, item |-> None, stats |-> None, err |-> e]

(***************************************************************************)
(* Stats sub-engine.                                                       *)
(***************************************************************************)
StatsHolder_new(subspace, transaction) ==
  [subspace    |-> Subspace_subspace(subspace, PackInt(Prefix_Stats)),
   transaction |-> transaction]

HeadcountStats_new(subspace, transaction) ==
  [subspace    |-> Subspace_subspace(subspace, PackInt(EntityType_Headcount)),
   transaction |-> transaction]

SizeStats_new(subspace, transaction) ==
  [subspace    |-> Subspace_subspace(subspace, PackInt(EntityType_Sizes)),
   transaction |-> transaction]

StatKey(stat) == Subspace_pack(stat.subspace, PackInt(StatType_Value))

\* variant: the stored bytes are decoded whatever their length
HeadcountStats_get_count_lenient(T, stat) ==
  LET r == Transaction_get(T, stat.transaction, StatKey(stat), TRUE)
  IN  IF r.value = None THEN [T |-> r.T, ok |-> TRUE, val |-> 0]
      ELSE [T |-> r.T, ok |-> TRUE, val |-> Horner(r.value[1])]

HeadcountStats_get_count(T, stat) ==
  LET r == Transaction_get(T, stat.transaction, StatKey(stat), TRUE)
  IN  IF r.value = None THEN [T |-> r.T, ok |-> TRUE, val |-> 0]
      ELSE IF Len(r.value[1]) # 8 THEN [T |-> r.T, ok |-> FALSE, val |-> 0]
      ELSE [T |-> r.T, ok |-> TRUE, val |-> from_le_bytes(r.value[1])]

SizeStats_get_size(T, stat) ==
  LET r == Transaction_get(T, stat.transaction, StatKey(stat), TRUE)
  IN  IF r.value = None THEN [T |-> r.T, ok |-> TRUE, val |-> 0]
      ELSE IF Len(r.value[1]) # 8 THEN [T |-> r.T, ok |-> FALSE, val |-> 0]
      ELSE [T |-> r.T, ok |-> TRUE, val |-> from_le_bytes(r.value[1])]

\* variant: read-modify-write of the counter with a conflicting read
HeadcountStats_update_put_rmw(T, stat, item) ==
  LET r == Transaction_get(T, stat.transaction, StatKey(stat), FALSE)
      n == IF r.value = None THEN 0 ELSE from_le_bytes(r.value[1])
  IN  Transaction_set(r.T, stat.transaction, StatKey(stat), to_le_bytes(n + 1))

HeadcountStats_update_put(T, stat, item) ==
  Transaction_atomic_op(T, stat.transaction, StatKey(stat), to_le_bytes(1), "add")

HeadcountStats_update_delete(T, stat, item) ==
  Transaction_atomic_op(T, stat.transaction, StatKey(stat), to_le_bytes(-1), "add")

\* variant: the count key is left in place
HeadcountStats_update_delete_all_keep(T, stat) == T

HeadcountStats_update_delete_all(T, stat) ==
  Transaction_clear(T, stat.transaction, StatKey(stat))

SizeStats_update_put(T, stat, item) ==
  Transaction_atomic_op(T, stat.transaction, StatKey(stat),
                        to_le_bytes(Len(as_bytes(item))), "add")

\* variant: the size goes down by the length of the value only
SizeStats_update_delete_value(T, stat, item) ==
  Transaction_atomic_op(T, stat.transaction, StatKey(stat),
                        to_le_bytes(-Len(item.value)), "add")

SizeStats_update_delete(T, stat, item) ==
  Transaction_atomic_op(T, stat.transaction, StatKey(stat),
                        to_le_bytes(-Len(as_bytes(item))), "add")

\* variant: clear leaves the size counter as it is
SizeStats_update_delete_all_keep(T, stat) == T

SizeStats_update_delete_all(T, stat) ==
  Transaction_clear(T, stat.transaction, StatKey(stat))

StatsHolder_get_count(T, holder) ==
  HeadcountStats_get_count(T, HeadcountStats_new(holder.subspace, holder.transaction))

StatsHolder_get_size(T, holder) ==
  SizeStats_get_size(T, SizeStats_new(holder.subspace, holder.transaction))

\* variant: only the first stat holder is updated
StatsHolder_update_first(T, holder, event) ==
  LET sizes == SizeStats_new(holder.subspace, holder.transaction)
  IN  CASE event.kind = "Put" -> SizeStats_update_put(T, sizes, event.item)
        [] event.kind = "Delete" -> SizeStats_update_delete(T, sizes, event.item)
        [] event.kind = "DeleteAll" -> SizeStats_update_delete_all(T, sizes)

\* the stat holders are updated in the order [SizeStats, HeadcountStats]
StatsHolder_update(T, holder, event) ==
  LET sizes == SizeStats_new(holder.subspace, holder.transaction)
      heads == HeadcountStats_new(holder.subspace, holder.transaction)
  IN  CASE event.kind = "Put" ->
             HeadcountStats_update_put(
               SizeStats_update_put(T, sizes, event.item), heads, event.item)
        [] event.kind = "Delete" ->
             HeadcountStats_update_delete(
               SizeStats_update_delete(T, sizes, event.item), heads, event.item)
        [] event.kind = "DeleteAll" ->
             HeadcountStats_update_delete_all(
               SizeStats_update_delete_all(T, sizes), heads)

(***************************************************************************)
(* Tenant storage engine.                                                  *)
(***************************************************************************)
\* variant: the root subspace is not scoped by the tenant
Cabinet_new_unscoped(transaction, tenant) ==
  [transaction   |-> transaction,
   root_subspace |-> Subspace_all,
   stats         |-> StatsHolder_new(Subspace_all, transaction)]

Cabinet_new(transaction, tenant) ==
  LET root_subspace == Subspace_subspace(Subspace_all, PackStr(tenant))
  IN  [transaction   |-> transaction,
       root_subspace |-> root_subspace,
       stats         |-> StatsHolder_new(root_subspace, transaction)]

ItemKey(cab, key) ==
  Subspace_pack(Subspace_subspace(cab.root_subspace, PackInt(Prefix_Data)),
                PackBytes(key))

\* variant: a put on a stored key replaces the blob and leaves the counters
Cabinet_put_upsert(T, cab, item) ==
  LET g  == Transaction_get(T, cab.transaction, ItemKey(cab, item.key), TRUE)
      T1 == Transaction_set(g.T, cab.transaction, ItemKey(cab, item.key),
                            as_bytes(item))
  IN  IF g.value = None
      THEN Ok(StatsHolder_update(T1, cab.stats, [kind |-> "Put", item |-> item]),
              None, None)
      ELSE Ok(T1, None, None)

Cabinet_put(T, cab, item) ==
  LET T1 == Transaction_set(T, cab.transaction, ItemKey(cab, item.key),
                            as_bytes(item))
  IN  Ok(StatsHolder_update(T1, cab.stats, [kind |-> "Put", item |-> item]),
         None, None)

\* variant: the item is read with a serializable read
Cabinet_get_serializable(T, cab, key) ==
  LET r == Transaction_get(T, cab.transaction, ItemKey(cab, key), FALSE)
  IN  IF r.value = None THEN Ok(r.T, None, None)
      ELSE Ok(r.T, Some(from_bytes(r.value[1])), None)

Cabinet_get(T, cab, key) ==
  LET r == Transaction_get(T, cab.transaction, ItemKey(cab, key), TRUE)
  IN  IF r.value = None THEN Ok(r.T, None, None)
      ELSE Ok(r.T, Some(from_bytes(r.value[1])), None)

\* variant: the counters are updated without checking that the key exists
Cabinet_delete_unchecked(T, cab, key) ==
  LET g  == Cabinet_get(T, cab, key)
      T1 == Transaction_clear(g.T, cab.transaction, ItemKey(cab, key))
  IN  Ok(StatsHolder_update(T1, cab.stats,
            [kind |-> "Delete",
             item |-> IF g.item = None THEN Item_new(key, << >>) ELSE g.item[1]]),
         g.item, None)

Cabinet_delete(T, cab, key) ==
  LET g == Cabinet_get(T, cab, key)
  IN  IF g.item = None THEN Ok(g.T, None, None)
      ELSE LET T1 == Transaction_clear(g.T, cab.transaction, ItemKey(cab, key))
           IN  Ok(StatsHolder_update(T1, cab.stats,
                                     [kind |-> "Delete", item |-> g.item[1]]),
                  g.item, None)

Cabinet_clear(T, cab) ==
  LET range == Subspace_range(
                 Subspace_subspace(cab.root_subspace, PackInt(Prefix_Data)))
      T1    == Transaction_clear_range(T, cab.transaction, range[1], range[2])
  IN  Ok(StatsHolder_update(T1, cab.stats, [kind |-> "DeleteAll", item |-> None]),
         None, None)

Cabinet_get_stats(cab) == cab.stats

\* the counter keys of tenant t
CountKey(t) ==
  StatKey(HeadcountStats_new(Cabinet_get_stats(Cabinet_new(0, t)).subspace, 0))

SizeKey(t) ==
  StatKey(SizeStats_new(Cabinet_get_stats(Cabinet_new(0, t)).subspace, 0))

(***************************************************************************)
(* Transactional wrapper: every attempt gets a fresh transaction with the  *)
(* AutomaticIdempotency option set, then runs the closure on it.           *)
(***************************************************************************)
\* variant: the option is not set
with_transaction_plain(db, h) == h :> NewTransaction(db)

with_transaction(db, h) ==
  Transaction_set_option(h :> NewTransaction(db), h, "AutomaticIdempotency")

(***************************************************************************)
(* The commands a connection runs against its tenant's cabinet.            *)
(***************************************************************************)
Commands ==
  { [op |-> "put", key |-> k, value |-> v] : k \in Keys, v \in Values }
    \cup { [op |-> o, key |-> k, value |-> << >>] : o \in {"get", "delete"}, k \in Keys }
    \cup { [op |-> o, key |-> << >>, value |-> << >>] : o \in {"clear", "stats"} }

NoCommand == [op |-> "none", key |-> << >>, value |-> << >>]

\* std::str::from_utf8 succeeds on the bytes v (the values of the model are
\* at most one byte long: a single byte is valid UTF-8 iff it is below 128)
from_utf8_ok(v) == \A i \in 1..Len(v) : v[i] < 128

\* variant: STATS reads the size from another, earlier state of the store
\* than the count
Execute_torn(T, cab, c) ==
  CASE c.op = "put"    -> Cabinet_put(T, cab, Item_new(c.key, c.value))
    [] c.op = "get"    ->
         LET g == Cabinet_get(T, cab, c.key)
         IN  IF g.ok /\ g.item # None /\ ~from_utf8_ok(g.item[1].value)
             THEN Err(g.T, "Utf8Error")
             ELSE g
    [] c.op = "delete" -> Cabinet_delete(T, cab, c.key)
    [] c.op = "clear"  -> Cabinet_clear(T, cab)
    [] c.op = "stats"  ->
         LET stats == Cabinet_get_stats(cab)
             size  == StatsHolder_get_size(
                        [h \in DOMAIN T |-> NewTransaction([x \in {} |-> << >>])], stats)
             count == StatsHolder_get_count(T, stats)
         IN  IF ~size.ok \/ ~count.ok
             THEN Err(count.T, "InvalidCountStatsValue")
             ELSE Ok(count.T, None,
                     Some([count |-> count.val, size |-> size.val]))
    [] OTHER -> Err(T, "unreachable")

\* the closure handed to with_tenant by the connection handler
Execute(T, cab, c) ==
  CASE c.op = "put"    -> Cabinet_put(T, cab, Item_new(c.key, c.value))
    [] c.op = "get"    ->
         LET g == Cabinet_get(T, cab, c.key)
         IN  IF g.ok /\ g.item # None /\ ~from_utf8_ok(g.item[1].value)
             THEN Err(g.T, "Utf8Error")
             ELSE g
    [] c.op = "delete" -> Cabinet_delete(T, cab, c.key)
    [] c.op = "clear"  -> Cabinet_clear(T, cab)
    [] c.op = "stats"  ->
         LET stats == Cabinet_get_stats(cab)
             size  == StatsHolder_get_size(T, stats)
             count == StatsHolder_get_count(size.T, stats)
         IN  IF ~size.ok \/ ~count.ok
             THEN Err(count.T, "InvalidCountStatsValue")
             ELSE Ok(count.T, None,
                     Some([count |-> count.val, size |-> size.val]))
    [] OTHER -> Err(T, "unreachable")

Reads(c) == c.op \in {"get", "delete", "stats"}

(***************************************************************************)
(* State.                                                                  *)
(***************************************************************************)
VARIABLES
  store,        \* the committed contents of the backing store
  tenant,       \* tenant[p]: the tenant connection p is authenticated to
  pc,           \* pc[p]: "idle", "run" (another attempt is due), "commit"
  cmd,          \* cmd[p]: the command of p's current or last transaction
  trx,          \* trx[p]: buffer, read conflict keys and options of the attempt
  res,          \* res[p]: what the closure returned in the last attempt
  attempts,     \* attempts[p]: number of the current attempt
  conflicting,  \* conflicting[p]: read conflict keys overwritten since p read
  txns,         \* number of transactions started so far
  faults,       \* number of store faults injected so far
  stats_holder, \* expected counters per tenant, as the stats workload keeps them
  items         \* expected item per tenant and key, by committed command

\* the server: listener, connection tasks and their sockets
VARIABLES
  listener,     \* CabinetServer::start: "init", "listening", "stopped", "failed"
  run_result,   \* what run() returned: None, Some("Ok") or Some("Err")
  conn,         \* conn[p]: position of connection task p (see ConnStates)
  state,        \* state[p]: the State of connection p (tenant, authenticated)
  requests,     \* requests[p]: what the command iterator has still to yield
  socket,       \* socket[p]: the responses written to the socket of p
  flushed,      \* flushed[p]: number of responses flushed to the client
  quit_rx,      \* quit_rx[p]: a quit message waits in p's quit channel
  shutdown_rx,  \* shutdown_rx[p]: the shutdown broadcast waits in p's receiver
  wire,         \* wire[p]: the commands the iterator of p has yielded so far
  reads         \* number of buffers read from sockets so far

svars == <<listener, run_result, conn, state, requests, socket, flushed,
           quit_rx, shutdown_rx, wire, reads>>

\* the command iterator on its own
VARIABLES
  input,        \* the commands and separators the input slice was written from
  scanner,      \* the bytes of the slice the scanner has not consumed
  parsed        \* what the calls of next() have returned so far

pvars == <<input, scanner, parsed>>

\* the simulation workload of each client
VARIABLES
  workload      \* workload[p]: phase, iteration counters and calls of client p

wvars == <<workload>>

\* a reader of the counters on its own
VARIABLES
  got           \* what the last call of get_count or get_size returned

cvars == <<got>>

vars == <<store, tenant, pc, cmd, trx, res, attempts, conflicting, txns,
          faults, stats_holder, items, svars, pvars, wvars, cvars>>

NoTrx == [buffer |-> << >>, rc |-> {}, options |-> {}]

NoResult == [ok |-> TRUE, item |-> None, stats |-> None, err |-> ""]

EmptyStore == [x \in {} |-> << >>]

\* State::new
State_new == [tenant |-> None, authenticated |-> FALSE]

\* before CabinetServer::start: no listener, no connection task
ServerInit ==
  /\ listener = "init"
  /\ run_result = None
  /\ conn = [p \in Procs |-> "none"]
  /\ state = [p \in Procs |-> State_new]
  /\ requests = [p \in Procs |-> << >>]
  /\ socket = [p \in Procs |-> << >>]
  /\ flushed = [p \in Procs |-> 0]
  /\ quit_rx = [p \in Procs |-> FALSE]
  /\ shutdown_rx = [p \in Procs |-> FALSE]
  /\ wire = [p \in Procs |-> << >>]
  /\ reads = 0

\* no input slice
ParserIdle == input = << >> /\ scanner = << >> /\ parsed = << >>

\* Workload::new: no iteration done yet; in_flight: a call of simulate has
\* not returned; outcome: what the last call of init, simulate or verify
\* returned
Workload_new ==
  [phase |-> "new", iteration |-> 0, successful_iteration |-> 0,
   failed_iterations |-> 0, in_flight |-> FALSE, init_calls |-> 0,
   simulate_calls |-> 0, verify_calls |-> 0, outcome |-> "none"]

WorkloadIdle == workload = [p \in Procs |-> Workload_new]

\* no counter has been read
NoReading ==
  [stat |-> "none", tenant |-> << >>, ok |-> TRUE, val |-> 0, err |-> "",
   buffer |-> << >>, rc |-> {}]

ReaderIdle == got = NoReading

Init ==
  /\ store = EmptyStore
  /\ tenant \in {f \in [Procs -> Tenants] : f[1] = <<97>>}
  /\ pc = [p \in Procs |-> "idle"]
  /\ cmd = [p \in Procs |-> NoCommand]
  /\ trx = [p \in Procs |-> NoTrx]
  /\ res = [p \in Procs |-> NoResult]
  /\ attempts = [p \in Procs |-> 0]
  /\ conflicting = [p \in Procs |-> {}]
  /\ txns = 0
  /\ faults = 0
  /\ stats_holder = [t \in Tenants |-> [count |-> 0, size |-> 0]]
  /\ items = [t \in Tenants |-> [k \in Keys |-> None]]
  /\ ServerInit
  /\ ParserIdle
  /\ WorkloadIdle
  /\ ReaderIdle

(***************************************************************************)
(* The expected state, updated once per transaction reported committed.    *)
(***************************************************************************)
StatsHolder_put(sh, item) ==
  [count |-> sh.count + 1, size |-> sh.size + Len(as_bytes(item))]

StatsHolder_delete(sh, item) ==
  [count |-> sh.count - 1, size |-> sh.size - Len(as_bytes(item))]

StatsHolder_clear(sh) == [count |-> 0, size |-> 0]

update_stats(sh, c, r) ==
  CASE c.op = "put" -> StatsHolder_put(sh, Item_new(c.key, c.value))
    [] c.op = "delete" -> IF r.item = None THEN sh ELSE StatsHolder_delete(sh, r.item[1])
    [] c.op = "clear" -> StatsHolder_clear(sh)
    [] OTHER -> sh

update_items(it, c, r) ==
  CASE c.op = "put" -> [it EXCEPT ![c.key] = Some(Item_new(c.key, c.value))]
    [] c.op = "delete" -> IF r.item = None THEN it ELSE [it EXCEPT ![c.key] = None]
    [] c.op = "clear" -> [k \in Keys |-> None]
    [] OTHER -> it

(***************************************************************************)
(* Actions.                                                                *)
(***************************************************************************)
\* one attempt of p's transaction on the store as of its read version: a
\* fresh transaction with the option set and the closure on a cabinet bound
\* to p's tenant.  fault: "none"; "retryable" (a read of the closure fails
\* with a retryable error and the wrapper starts another attempt); "fatal"
\* (a read fails with any other error, which the wrapper returns)
AttemptAs(p, t, c, n, fault) ==
  /\ fault # "none" => (Reads(c) /\ faults < MaxFaults)
  /\ faults' = IF fault = "none" THEN faults ELSE faults + 1
  /\ cmd' = [cmd EXCEPT ![p] = c]
  /\ conflicting' = [conflicting EXCEPT ![p] = {}]
  /\ IF fault = "none"
     THEN \E r \in {Execute(with_transaction(store, p), Cabinet_new(p, t), c)} :
            /\ res' = [res EXCEPT ![p] = [ok |-> r.ok, item |-> r.item,
                                          stats |-> r.stats, err |-> r.err]]
            /\ trx' = [trx EXCEPT ![p] = [buffer  |-> r.T[p].buffer,
                                          rc      |-> r.T[p].rc,
                                          options |-> r.T[p].options]]
            /\ pc' = [pc EXCEPT ![p] = IF r.ok THEN "commit" ELSE "idle"]
            /\ attempts' = [attempts EXCEPT ![p] = n]
     ELSE /\ res' = [res EXCEPT ![p] =
                       IF fault = "fatal"
                       THEN [NoResult EXCEPT !.ok = FALSE, !.err = "FdbError"]
                       ELSE NoResult]
          /\ trx' = [trx EXCEPT ![p] = NoTrx]
          /\ pc' = [pc EXCEPT ![p] = IF fault = "fatal" THEN "idle" ELSE "run"]
          /\ attempts' = [attempts EXCEPT ![p] =
                            IF fault = "fatal" THEN n ELSE n + 1]

\* an attempt on the cabinet of the tenant p is bound to
Attempt(p, c, n, fault) == AttemptAs(p, tenant[p], c, n, fault)

\* connection p receives command c, enters with_tenant and runs the first
\* attempt
Begin(p, c, fault) ==
  /\ pc[p] = "idle"
  /\ txns < MaxTxns
  /\ txns' = txns + 1
  /\ Attempt(p, c, 1, fault)
  /\ UNCHANGED <<store, tenant, stats_holder, items, svars, pvars, wvars, cvars>>

\* the wrapper runs another attempt after a retryable error
Run(p, fault) ==
  /\ pc[p] = "run"
  /\ Attempt(p, cmd[p], attempts[p], fault)
  /\ UNCHANGED <<store, tenant, txns, stats_holder, items, svars, pvars, wvars, cvars>>

\* the keys of rc that the mutations muts write
Overwritten(rc, muts) ==
  {k \in rc : \E i \in 1..Len(muts) : Writes(muts[i], k)}

\* commit of p's attempt.  outcome: "committed"; "unknown" (the commit was
\* applied but its result did not reach the client); "failed" (a retryable
\* commit error, nothing applied)
Commit(p, outcome) ==
  /\ pc[p] = "commit"
  /\ outcome # "committed" => (trx[p].buffer # << >> /\ faults < MaxFaults)
  /\ faults' = IF outcome = "committed" THEN faults ELSE faults + 1
  /\ LET conflict == conflicting[p] # {}
         applied  == ~conflict /\ outcome \in {"committed", "unknown"}
         reported == applied /\ (outcome = "committed"
                                 \/ "AutomaticIdempotency" \in trx[p].options)
     IN  /\ store' = IF applied THEN ApplyAll(store, trx[p].buffer) ELSE store
         /\ conflicting' =
              [q \in Procs |->
                 IF q # p /\ pc[q] = "commit" /\ applied
                 THEN conflicting[q] \cup Overwritten(trx[q].rc, trx[p].buffer)
                 ELSE IF q = p THEN {} ELSE conflicting[q]]
         /\ pc' = [pc EXCEPT ![p] = IF reported THEN "idle" ELSE "run"]
         /\ attempts' = [attempts EXCEPT ![p] = IF reported THEN @ ELSE @ + 1]
         /\ trx' = [trx EXCEPT ![p] = NoTrx]
         /\ stats_holder' =
              IF reported
              THEN [stats_holder EXCEPT ![tenant[p]] = update_stats(@, cmd[p], res[p])]
              ELSE stats_holder
         /\ items' =
              IF reported
              THEN [items EXCEPT ![tenant[p]] = update_items(@, cmd[p], res[p])]
              ELSE items
  /\ UNCHANGED <<tenant, cmd, res, txns, svars, pvars, wvars, cvars>>

Faults == {"none", "retryable", "fatal"}

Next ==
  \/ \E p \in Procs, c \in Commands, fault \in Faults : Begin(p, c, fault)
  \/ \E p \in Procs, fault \in Faults : Run(p, fault)
  \/ \E p \in Procs, outcome \in {"committed", "unknown", "failed"} : Commit(p, outcome)

Spec == Init /\ [][Next]_vars

(***************************************************************************)
(* The TCP server: one task per accepted connection.  A task sits in its   *)
(* select loop ("select"), walks the commands of a read buffer             *)
(* ("handling"), waits for the transaction of a data command ("awaiting")  *)
(* or has left its loop: "eof", "read_error", "shutdown" (the loop broke)  *)
(* or "error" (handle_connection returned an error).                       *)
(***************************************************************************)
ClosedStates == {"eof", "read_error", "shutdown", "error"}

Closed(p) == conn[p] \in ClosedStates

Response(kind, message, value, count, size) ==
  [kind |-> kind, message |-> message, value |-> value,
   count |-> count, size |-> size]

Response_Ok == Response("Ok", "", << >>, 0, 0)

Response_Error(message) == Response("Error", message, << >>, 0, 0)

Response_AuthRequired == Response("AuthRequired", "", << >>, 0, 0)

Response_Value(value) == Response("Value", "", value, 0, 0)

Response_Stats(count, size) == Response("Stats", "", << >>, count, size)

Response_Nil == Response("Nil", "", << >>, 0, 0)

\* what the command iterator yields besides the data commands
Auth(t) == [op |-> "auth", key |-> t, value |-> << >>]

Quit == [op |-> "quit", key |-> << >>, value |-> << >>]

Unknown == [op |-> "unknown", key |-> << >>, value |-> << >>]

ParseError == [op |-> "parse_error", key |-> << >>, value |-> << >>]

DataOps == {"put", "get", "delete", "clear", "stats"}

\* the read buffers of the model, as the sequences Commands::new(raw) yields
Requests ==
  { << Auth(<<97>>),
       [op |-> "put", key |-> <<107>>, value |-> <<118>>],
       [op |-> "put", key |-> <<0>>, value |-> << >>],
       [op |-> "stats", key |-> << >>, value |-> << >>] >>,
    << [op |-> "get", key |-> <<107>>, value |-> << >>] >>,
    << Quit, [op |-> "stats", key |-> << >>, value |-> << >>] >>,
    << Unknown, ParseError, [op |-> "clear", key |-> << >>, value |-> << >>] >>,
    << Auth(<< >>), [op |-> "delete", key |-> <<107>>, value |-> << >>] >>,
    << Auth(<<97, 0, 20>>), [op |-> "put", key |-> <<107>>, value |-> << >>] >>,
    << Auth(<<97>>), [op |-> "delete", key |-> <<107>>, value |-> << >>],
       [op |-> "get", key |-> <<107>>, value |-> << >>] >> }

\* the response of handle_authenticated_requests to command c whose closure
\* returned r
ResponseOf(c, r) ==
  CASE c.op = "put"    -> Response_Ok
    [] c.op = "get"    -> IF r.item = None THEN Response_Nil
                          ELSE Response_Value(r.item[1].value)
    [] c.op = "delete" -> IF r.item = None THEN Response_Nil ELSE Response_Ok
    [] c.op = "clear"  -> Response_Ok
    [] c.op = "stats"  -> Response_Stats(r.stats[1].count, r.stats[1].size)

\* the variables of the transactions, but for tenant
tvars == <<store, pc, cmd, trx, res, attempts, conflicting, txns, faults,
           stats_holder, items>>

\* CabinetServer::start up to its accept loop; available: the port check
\* and the bind succeed.  run() logs a start error and returns Ok(())
Start(available) ==
  /\ listener = "init"
  /\ listener' = IF available THEN "listening" ELSE "failed"
  /\ run_result' = IF available THEN None ELSE Some("Ok")
  /\ UNCHANGED <<pvars, wvars, cvars, tvars, tenant, conn, state, requests, socket, flushed,
                 quit_rx, shutdown_rx, wire, reads>>

\* the accept loop accepts a connection, subscribes it to the shutdown
\* channel and spawns its task
Accept(p) ==
  /\ listener = "listening"
  /\ conn[p] = "none"
  /\ conn' = [conn EXCEPT ![p] = "select"]
  /\ state' = [state EXCEPT ![p] = State_new]
  /\ shutdown_rx' = [shutdown_rx EXCEPT ![p] = FALSE]
  /\ UNCHANGED <<pvars, wvars, cvars, tvars, tenant, listener, run_result, requests, socket,
                 flushed, quit_rx, wire, reads>>

\* variant: the accept loop breaks without the broadcast
CabinetServer_shutdown_silent ==
  /\ listener = "listening"
  /\ listener' = "stopped"
  /\ run_result' = Some("Ok")
  /\ UNCHANGED <<pvars, wvars, cvars, tvars, tenant, conn, state, requests, socket, flushed,
                 quit_rx, shutdown_rx, wire, reads>>

\* the interrupt signal: shutdown() broadcasts to the receivers that exist,
\* the accept loop breaks, start returns Ok and so does run
CabinetServer_shutdown ==
  /\ listener = "listening"
  /\ shutdown_rx' = [p \in Procs |->
                       IF conn[p] \in {"select", "handling", "awaiting"}
                       THEN TRUE ELSE shutdown_rx[p]]
  /\ listener' = "stopped"
  /\ run_result' = Some("Ok")
  /\ UNCHANGED <<pvars, wvars, cvars, tvars, tenant, conn, state, requests, socket, flushed,
                 quit_rx, wire, reads>>

\* the select loop reads a buffer from the socket
SocketRead(p, buf) ==
  /\ conn[p] = "select"
  /\ reads < MaxReads
  /\ reads' = reads + 1
  /\ requests' = [requests EXCEPT ![p] = buf]
  /\ conn' = [conn EXCEPT ![p] = "handling"]
  /\ UNCHANGED <<pvars, wvars, cvars, tvars, tenant, listener, run_result, state, socket, flushed,
                 quit_rx, shutdown_rx, wire>>

\* the read returns Ok(0) ("eof") or an error ("read_error"): the loop breaks
SocketClosed(p, how) ==
  /\ conn[p] = "select"
  /\ conn' = [conn EXCEPT ![p] = how]
  /\ UNCHANGED <<pvars, wvars, cvars, tvars, tenant, listener, run_result, state, requests, socket,
                 flushed, quit_rx, shutdown_rx, wire, reads>>

\* the select loop takes the quit_rx branch: it logs and goes on looping
QuitReceived(p) ==
  /\ conn[p] = "select"
  /\ quit_rx[p]
  /\ quit_rx' = [quit_rx EXCEPT ![p] = FALSE]
  /\ UNCHANGED <<pvars, wvars, cvars, tvars, tenant, listener, run_result, conn, state, requests,
                 socket, flushed, shutdown_rx, wire, reads>>

\* variant: the signal is observed between two commands of a buffer too
ShutdownReceived_interrupting(p) ==
  /\ conn[p] \in {"select", "handling"}
  /\ shutdown_rx[p]
  /\ shutdown_rx' = [shutdown_rx EXCEPT ![p] = FALSE]
  /\ conn' = [conn EXCEPT ![p] = "shutdown"]
  /\ UNCHANGED <<pvars, wvars, cvars, tvars, tenant, listener, run_result, state, requests, socket,
                 flushed, quit_rx, wire, reads>>

\* the select loop takes the shutdown_rx branch: the loop breaks
ShutdownReceived(p) ==
  /\ conn[p] = "select"
  /\ shutdown_rx[p]
  /\ shutdown_rx' = [shutdown_rx EXCEPT ![p] = FALSE]
  /\ conn' = [conn EXCEPT ![p] = "shutdown"]
  /\ UNCHANGED <<pvars, wvars, cvars, tvars, tenant, listener, run_result, state, requests, socket,
                 flushed, quit_rx, wire, reads>>

\* variant: an AUTH with an empty name logs the connection out
handle_requests_non_authenticated_reset(p, c) ==
  /\ state' = [state EXCEPT ![p] =
                 IF c.op = "auth"
                 THEN IF c.key # << >>
                      THEN [tenant |-> Some(c.key), authenticated |-> TRUE]
                      ELSE State_new
                 ELSE @]
  /\ quit_rx' = [quit_rx EXCEPT ![p] = IF c.op = "quit" THEN TRUE ELSE @]
  /\ socket' = [socket EXCEPT ![p] = Append(@,
                  CASE c.op = "auth" ->
                         IF c.key # << >> THEN Response_Ok
                         ELSE Response_Error("Authentication failed")
                    [] c.op = "unknown" -> Response_Error("Unknown command")
                    [] c.op = "quit" -> Response_Ok
                    [] OTHER -> Response_AuthRequired)]
  /\ UNCHANGED <<tvars, tenant, conn>>

\* variant: an AUTH on an authenticated connection keeps the first tenant
handle_requests_non_authenticated_first(p, c) ==
  /\ state' = [state EXCEPT ![p] =
                 IF c.op = "auth" /\ c.key # << >> /\ ~state[p].authenticated
                 THEN [tenant |-> Some(c.key), authenticated |-> TRUE]
                 ELSE @]
  /\ quit_rx' = [quit_rx EXCEPT ![p] = IF c.op = "quit" THEN TRUE ELSE @]
  /\ socket' = [socket EXCEPT ![p] = Append(@,
                  CASE c.op = "auth" ->
                         IF c.key # << >> THEN Response_Ok
                         ELSE Response_Error("Authentication failed")
                    [] c.op = "unknown" -> Response_Error("Unknown command")
                    [] c.op = "quit" -> Response_Ok
                    [] OTHER -> Response_AuthRequired)]
  /\ UNCHANGED <<tvars, tenant, conn>>

\* variant: an AUTH is accepted whatever the name
handle_requests_non_authenticated_any(p, c) ==
  /\ state' = [state EXCEPT ![p] =
                 IF c.op = "auth"
                 THEN [tenant |-> Some(c.key), authenticated |-> TRUE]
                 ELSE @]
  /\ quit_rx' = [quit_rx EXCEPT ![p] = IF c.op = "quit" THEN TRUE ELSE @]
  /\ socket' = [socket EXCEPT ![p] = Append(@,
                  CASE c.op = "auth" -> Response_Ok
                    [] c.op = "unknown" -> Response_Error("Unknown command")
                    [] c.op = "quit" -> Response_Ok
                    [] OTHER -> Response_AuthRequired)]
  /\ UNCHANGED <<tvars, tenant, conn>>

\* Auth, Unknown and Quit; any other command is answered AUTHREQUIRED
handle_requests_non_authenticated(p, c) ==
  /\ state' = [state EXCEPT ![p] =
                 IF c.op = "auth" /\ c.key # << >>
                 THEN [tenant |-> Some(c.key), authenticated |-> TRUE]
                 ELSE @]
  /\ quit_rx' = [quit_rx EXCEPT ![p] = IF c.op = "quit" THEN TRUE ELSE @]
  /\ socket' = [socket EXCEPT ![p] = Append(@,
                  CASE c.op = "auth" ->
                         IF c.key # << >> THEN Response_Ok
                         ELSE Response_Error("Authentication failed")
                    [] c.op = "unknown" -> Response_Error("Unknown command")
                    [] c.op = "quit" -> Response_Ok
                    [] OTHER -> Response_AuthRequired)]
  /\ UNCHANGED <<tvars, tenant, conn>>

\* variant: the gate lets every connection through
AuthRequired_never(st) == FALSE

\* the connection has not authenticated or has no tenant
AuthRequired(st) == ~st.authenticated \/ st.tenant = None

\* a data command: behind the gate, with_tenant runs the first attempt of a
\* transaction on the cabinet of the tenant of the connection
handle_authenticated_requests(p, c, fault) ==
  IF AuthRequired(state[p])
  THEN /\ fault = "none"
       /\ socket' = [socket EXCEPT ![p] = Append(@, Response_AuthRequired)]
       /\ UNCHANGED <<tvars, tenant, conn, state, quit_rx>>
  ELSE LET t == IF state[p].tenant = None THEN tenant[p] ELSE state[p].tenant[1]
       IN  /\ AttemptAs(p, t, c, 1, fault)
           /\ tenant' = [tenant EXCEPT ![p] = t]
           /\ txns' = txns + 1
           /\ conn' = [conn EXCEPT ![p] = "awaiting"]
           /\ UNCHANGED <<store, stats_holder, items, state, socket, quit_rx>>

\* variant: only Auth and Quit go to the non-authenticated handler
handle_requests_unknown_as_data(p, fault) ==
  /\ conn[p] = "handling"
  /\ requests[p] # << >>
  /\ LET c == Head(requests[p])
     IN  /\ requests' = [requests EXCEPT ![p] = Tail(@)]
         /\ wire' = [wire EXCEPT ![p] = Append(@, c)]
         /\ CASE c.op = "parse_error" ->
                   /\ fault = "none"
                   /\ conn' = [conn EXCEPT ![p] = "error"]
                   /\ UNCHANGED <<tvars, tenant, state, socket, quit_rx>>
              [] c.op \in {"auth", "quit"} ->
                   /\ fault = "none"
                   /\ handle_requests_non_authenticated(p, c)
              [] OTHER -> handle_authenticated_requests(p, c, fault)
  /\ UNCHANGED <<pvars, wvars, cvars, listener, run_result, flushed, shutdown_rx, reads>>

\* one turn of the for loop of handle_requests: the iterator yields its next
\* parse result; an error makes handle_requests and handle_connection return
\* it, a command goes to one of the two handlers
handle_requests(p, fault) ==
  /\ conn[p] = "handling"
  /\ requests[p] # << >>
  /\ LET c == Head(requests[p])
     IN  /\ requests' = [requests EXCEPT ![p] = Tail(@)]
         /\ wire' = [wire EXCEPT ![p] = Append(@, c)]
         /\ CASE c.op = "parse_error" ->
                   /\ fault = "none"
                   /\ conn' = [conn EXCEPT ![p] = "error"]
                   /\ UNCHANGED <<tvars, tenant, state, socket, quit_rx>>
              [] c.op \in {"auth", "unknown", "quit"} ->
                   /\ fault = "none"
                   /\ handle_requests_non_authenticated(p, c)
              [] OTHER -> handle_authenticated_requests(p, c, fault)
  /\ UNCHANGED <<pvars, wvars, cvars, listener, run_result, flushed, shutdown_rx, reads>>

\* variant: the response is written while the transaction awaits its commit
Reply_early(p) ==
  /\ conn[p] = "awaiting"
  /\ pc[p] \in {"idle", "commit"}
  /\ socket' = [socket EXCEPT ![p] = Append(@, ResponseOf(cmd[p], res[p]))]
  /\ conn' = [conn EXCEPT ![p] = "handling"]
  /\ UNCHANGED <<pvars, wvars, cvars, tvars, tenant, listener, run_result, state, requests, flushed,
                 quit_rx, shutdown_rx, wire, reads>>

\* with_tenant has returned: its response is written to the socket, its
\* error makes handle_requests and handle_connection return it
Reply(p) ==
  /\ conn[p] = "awaiting"
  /\ pc[p] = "idle"
  /\ IF res[p].ok
     THEN /\ socket' = [socket EXCEPT ![p] = Append(@, ResponseOf(cmd[p], res[p]))]
          /\ conn' = [conn EXCEPT ![p] = "handling"]
     ELSE /\ conn' = [conn EXCEPT ![p] = "error"]
          /\ UNCHANGED socket
  /\ UNCHANGED <<pvars, wvars, cvars, tvars, tenant, listener, run_result, state, requests, flushed,
                 quit_rx, shutdown_rx, wire, reads>>

\* the iterator is exhausted: handle_requests returns and the socket is
\* flushed, back to the select loop
Flush(p) ==
  /\ conn[p] = "handling"
  /\ requests[p] = << >>
  /\ flushed' = [flushed EXCEPT ![p] = Len(socket[p])]
  /\ conn' = [conn EXCEPT ![p] = "select"]
  /\ UNCHANGED <<pvars, wvars, cvars, tvars, tenant, listener, run_result, state, requests, socket,
                 quit_rx, shutdown_rx, wire, reads>>

InitServer == Init /\ tenant = [p \in Procs |-> <<97>>]

NextServer ==
  \/ \E available \in BOOLEAN : Start(available)
  \/ \E p \in Procs : Accept(p)
  \/ CabinetServer_shutdown
  \/ \E p \in Procs, buf \in Requests : SocketRead(p, buf)
  \/ \E p \in Procs, how \in {"eof", "read_error"} : SocketClosed(p, how)
  \/ \E p \in Procs : QuitReceived(p)
  \/ \E p \in Procs : ShutdownReceived(p)
  \/ \E p \in Procs, fault \in Faults : handle_requests(p, fault)
  \/ \E p \in Procs, fault \in Faults : Run(p, fault)
  \/ \E p \in Procs, outcome \in {"committed", "unknown", "failed"} : Commit(p, outcome)
  \/ \E p \in Procs : Reply(p)
  \/ \E p \in Procs : Flush(p)

SpecServer == InitServer /\ [][NextServer]_vars

\* a step of the task of p between two visits of its select loop
HandlerStep(p) ==
  \/ \E fault \in Faults : handle_requests(p, fault)
  \/ \E fault \in Faults : Run(p, fault)
  \/ \E outcome \in {"committed", "unknown", "failed"} : Commit(p, outcome)
  \/ Reply(p)
  \/ Flush(p)

\* the runtime keeps polling a task that can proceed; select! picks among
\* its ready branches at random, so that a branch that is ready again and
\* again is taken in the end
ServerFairness ==
  \A p \in Procs : WF_vars(HandlerStep(p)) /\ SF_vars(ShutdownReceived(p))

\* the server with clients that send one of two buffers
ShutdownRequests ==
  { << Auth(<<97>>), [op |-> "get", key |-> <<107>>, value |-> << >>] >>,
    << Quit >> }

NextShutdown ==
  \/ \E available \in BOOLEAN : Start(available)
  \/ \E p \in Procs : Accept(p)
  \/ CabinetServer_shutdown
  \/ \E p \in Procs, buf \in ShutdownRequests : SocketRead(p, buf)
  \/ \E p \in Procs, how \in {"eof", "read_error"} : SocketClosed(p, how)
  \/ \E p \in Procs : QuitReceived(p)
  \/ \E p \in Procs : ShutdownReceived(p)
  \/ \E p \in Procs : HandlerStep(p)

SpecShutdown == InitServer /\ [][NextShutdown]_vars /\ ServerFairness

(***************************************************************************)
(* The accept loop with failing accepts, next to connections that end with *)
(* an error.                                                               *)
(***************************************************************************)
\* variant: an error of accept ends the accept loop
AcceptError_fatal ==
  /\ listener = "listening"
  /\ faults < MaxFaults
  /\ faults' = faults + 1
  /\ listener' = "failed"
  /\ run_result' = Some("Ok")
  /\ UNCHANGED <<pvars, wvars, cvars, store, pc, cmd, trx, res, attempts, conflicting, txns,
                 stats_holder, items, tenant, conn, state, requests,
                 socket, flushed, quit_rx, shutdown_rx, wire, reads>>

\* listener.accept() returns an error: it is logged and the loop goes on
AcceptError ==
  /\ listener = "listening"
  /\ faults < MaxFaults
  /\ faults' = faults + 1
  /\ UNCHANGED <<pvars, wvars, cvars, store, pc, cmd, trx, res, attempts, conflicting, txns,
                 stats_holder, items, tenant, listener, run_result, conn, state, requests,
                 socket, flushed, quit_rx, shutdown_rx, wire, reads>>

\* the server with clients that send one of four buffers
AcceptRequests ==
  { << Auth(<<97>>), [op |-> "get", key |-> <<107>>, value |-> << >>] >>,
    << Auth(<<97, 0, 20>>), [op |-> "stats", key |-> << >>, value |-> << >>] >>,
    << ParseError >>,
    << Quit >> }

NextAccept ==
  \/ \E available \in BOOLEAN : Start(available)
  \/ \E p \in Procs : Accept(p)
  \/ AcceptError
  \/ CabinetServer_shutdown
  \/ \E p \in Procs, buf \in AcceptRequests : SocketRead(p, buf)
  \/ \E p \in Procs, how \in {"eof", "read_error"} : SocketClosed(p, how)
  \/ \E p \in Procs : QuitReceived(p)
  \/ \E p \in Procs : ShutdownReceived(p)
  \/ \E p \in Procs : HandlerStep(p)

SpecAccept == InitServer /\ [][NextAccept]_vars

(***************************************************************************)
(* The protocol parser.  A visitor takes the bytes the scanner has not     *)
(* consumed and returns whether it accepted, the command it built and the  *)
(* bytes left; a visitor that fails leaves the scanner where it was.       *)
(***************************************************************************)
Drop(s, n) == SubSeq(s, n + 1, Len(s))

to_ascii_lowercase(b) == IF b \in 65..90 THEN b + 32 ELSE b

\* the keywords are matched without regard to case
match_pattern(pattern, data) ==
  /\ Len(pattern) <= Len(data)
  /\ \A i \in 1..Len(pattern) : to_ascii_lowercase(data[i]) = pattern[i]

KeyWord ==
  [Auth   |-> <<97, 117, 116, 104>>,
   Put    |-> <<112, 117, 116>>,
   Get    |-> <<103, 101, 116>>,
   Delete |-> <<100, 101, 108, 101, 116, 101>>,
   Clear  |-> <<99, 108, 101, 97, 114>>,
   Stats  |-> <<115, 116, 97, 116, 115>>,
   Quit   |-> <<113, 117, 105, 116>>]

Accepted(c, rest) == [ok |-> TRUE, cmd |-> c, rest |-> rest]

Rejected(s) == [ok |-> FALSE, cmd |-> NoCommand, rest |-> s]

recognize(pattern, s) ==
  IF match_pattern(pattern, s) THEN Accepted(NoCommand, Drop(s, Len(pattern)))
  ELSE Rejected(s)

\* the number of space bytes s starts with
LeadingSpaces(s) ==
  CHOOSE n \in 0..Len(s) :
    /\ \A i \in 1..n : s[i] = 32
    /\ n = Len(s) \/ s[n + 1] # 32

Whitespaces(s) ==
  IF LeadingSpaces(s) > 0 THEN Accepted(NoCommand, Drop(s, LeadingSpaces(s)))
  ELSE Rejected(s)

OptionalWhitespaces(s) == Accepted(NoCommand, Drop(s, LeadingSpaces(s)))

\* a group in double quotes: the bytes between the quotes, the scanner
\* moves past the closing quote
Data_accept(s) ==
  IF s # << >> /\ s[1] = 34 /\ \E j \in 2..Len(s) : s[j] = 34
  THEN LET j == CHOOSE j \in 2..Len(s) :
                  s[j] = 34 /\ \A i \in 2..(j - 1) : s[i] # 34
       IN  Accepted([NoCommand EXCEPT !.key = SubSeq(s, 2, j - 1)], Drop(s, j))
  ELSE Rejected(s)

\* variant: a newline after a command stays in the scanner
recognize_Ln_never(s) == s

\* one newline after a command is consumed when there is one
recognize_Ln(s) == IF s # << >> /\ s[1] = 10 THEN Drop(s, 1) ELSE s

\* keyword, whitespace, one quoted group, optional whitespace
KeyData_accept(pattern, op, s) ==
  LET k == recognize(pattern, s)
      w == Whitespaces(k.rest)
      d == Data_accept(w.rest)
  IN  IF k.ok /\ w.ok /\ d.ok
      THEN Accepted([op |-> op, key |-> d.cmd.key, value |-> << >>],
                    OptionalWhitespaces(d.rest).rest)
      ELSE Rejected(s)

\* keyword, optional whitespace
Key_accept(pattern, op, s) ==
  LET k == recognize(pattern, s)
  IN  IF k.ok
      THEN Accepted([op |-> op, key |-> << >>, value |-> << >>],
                    OptionalWhitespaces(k.rest).rest)
      ELSE Rejected(s)

Auth_accept(s) ==
  LET a == KeyData_accept(KeyWord.Auth, "auth", s)
  IN  IF a.ok /\ from_utf8_ok(a.cmd.key) THEN a ELSE Rejected(s)

Get_accept(s) == KeyData_accept(KeyWord.Get, "get", s)

Put_accept(s) ==
  LET k == recognize(KeyWord.Put, s)
      w == Whitespaces(k.rest)
      d == Data_accept(w.rest)
      x == Whitespaces(d.rest)
      v == Data_accept(x.rest)
  IN  IF k.ok /\ w.ok /\ d.ok /\ x.ok /\ v.ok
      THEN Accepted([op |-> "put", key |-> d.cmd.key, value |-> v.cmd.key],
                    OptionalWhitespaces(v.rest).rest)
      ELSE Rejected(s)

Delete_accept(s) == KeyData_accept(KeyWord.Delete, "delete", s)

Clear_accept(s) == Key_accept(KeyWord.Clear, "clear", s)

Stats_accept(s) == Key_accept(KeyWord.Stats, "stats", s)

Quit_accept(s) == Key_accept(KeyWord.Quit, "quit", s)

\* variant: the space that ends an unknown word stays in the scanner
Unknown_accept_before(s) ==
  IF \E j \in 1..Len(s) : s[j] = 32
  THEN Accepted(Unknown, Drop(s, (CHOOSE j \in 1..Len(s) :
                                    s[j] = 32 /\ \A i \in 1..(j - 1) : s[i] # 32) - 1))
  ELSE Accepted(Unknown, << >>)

\* the bytes up to the first space, the space included, or up to the end
Unknown_accept(s) ==
  IF \E j \in 1..Len(s) : s[j] = 32
  THEN Accepted(Unknown, Drop(s, CHOOSE j \in 1..Len(s) :
                                   s[j] = 32 /\ \A i \in 1..(j - 1) : s[i] # 32))
  ELSE Accepted(Unknown, << >>)

\* the first visitor that accepts, then a newline
Command_accept(s) ==
  LET a == IF Auth_accept(s).ok THEN Auth_accept(s)
           ELSE IF Get_accept(s).ok THEN Get_accept(s)
           ELSE IF Put_accept(s).ok THEN Put_accept(s)
           ELSE IF Delete_accept(s).ok THEN Delete_accept(s)
           ELSE IF Clear_accept(s).ok THEN Clear_accept(s)
           ELSE IF Stats_accept(s).ok THEN Stats_accept(s)
           ELSE IF Quit_accept(s).ok THEN Quit_accept(s)
           ELSE Unknown_accept(s)
  IN  [a EXCEPT !.rest = recognize_Ln(a.rest)]

\* Commands::next: None on an empty scanner, otherwise the result of
\* Command::accept (a command, or the parse error) and the scanner after it
Commands_next(s) ==
  IF s = << >> THEN [item |-> None, scanner |-> s]
  ELSE LET a == Command_accept(s)
       IN  [item |-> Some(IF a.ok THEN a.cmd ELSE ParseError), scanner |-> a.rest]

(***************************************************************************)
(* The command iterator over well-formed inputs: each element of `input`   *)
(* is a command, how its keyword is written and the whitespace after it.   *)
(* The scanner holds the bytes not consumed yet, `parsed` what the calls   *)
(* of next() returned so far.                                              *)
(***************************************************************************)
to_ascii_uppercase(b) == IF b \in 97..122 THEN b - 32 ELSE b

Quoted(d) == <<34>> \o d \o <<34>>

\* the bytes of an unrecognised word
UnknownWord == <<117, 110, 107, 110, 111, 119, 110>>

\* a keyword as written: in lower case, or in upper case
Spelled(pattern, upper) ==
  IF upper THEN [i \in 1..Len(pattern) |-> to_ascii_uppercase(pattern[i])] ELSE pattern

RenderCommand(c, upper) ==
  CASE c.op = "auth"   -> Spelled(KeyWord.Auth, upper) \o <<32>> \o Quoted(c.key)
    [] c.op = "get"    -> Spelled(KeyWord.Get, upper) \o <<32>> \o Quoted(c.key)
    [] c.op = "put"    -> Spelled(KeyWord.Put, upper) \o <<32>> \o Quoted(c.key)
                            \o <<32>> \o Quoted(c.value)
    [] c.op = "delete" -> Spelled(KeyWord.Delete, upper) \o <<32>> \o Quoted(c.key)
    [] c.op = "clear"  -> Spelled(KeyWord.Clear, upper)
    [] c.op = "stats"  -> Spelled(KeyWord.Stats, upper)
    [] c.op = "quit"   -> Spelled(KeyWord.Quit, upper)
    [] OTHER           -> UnknownWord

RenderElement(e) == RenderCommand(e.cmd, e.upper) \o e.sep

RECURSIVE Render(_)
Render(in) == IF in = << >> THEN << >> ELSE RenderElement(Head(in)) \o Render(Tail(in))

ParserData == {<<107>>, <<116, 32, 49>>}

ParserCommands ==
  {Auth(d) : d \in ParserData}
    \cup {[op |-> "get", key |-> d, value |-> << >>] : d \in {<<107>>, << >>}}
    \cup {[op |-> "put", key |-> <<107>>, value |-> v] : v \in {<<118>>, << >>}}
    \cup {[op |-> "delete", key |-> <<107>>, value |-> << >>]}
    \cup {[op |-> o, key |-> << >>, value |-> << >>] : o \in {"clear", "stats", "quit"}}
    \cup {Unknown}

\* spaces, optionally closed by one newline
Separators == {<<32>>, <<10>>, <<32, 32, 10>>}

Elements ==
  {e \in [cmd : ParserCommands, upper : BOOLEAN, sep : Separators \cup {<< >>}] :
     /\ e.upper => e.cmd.op = "delete"
     /\ e.cmd.op = "unknown" => e.sep \in {<<32>>, << >>}}

\* every command but the last is followed by whitespace
WellFormed(in) == \A i \in 1..(Len(in) - 1) : in[i].sep # << >>

ParserInputs ==
  {in \in UNION {[1..n -> Elements] : n \in 1..MaxCommands} : WellFormed(in)}

InitParser ==
  /\ store = EmptyStore
  /\ tenant = [p \in Procs |-> <<97>>]
  /\ pc = [p \in Procs |-> "idle"]
  /\ cmd = [p \in Procs |-> NoCommand]
  /\ trx = [p \in Procs |-> NoTrx]
  /\ res = [p \in Procs |-> NoResult]
  /\ attempts = [p \in Procs |-> 0]
  /\ conflicting = [p \in Procs |-> {}]
  /\ txns = 0
  /\ faults = 0
  /\ stats_holder = [t \in Tenants |-> [count |-> 0, size |-> 0]]
  /\ items = [t \in Tenants |-> [k \in Keys |-> None]]
  /\ ServerInit
  /\ WorkloadIdle
  /\ ReaderIdle
  /\ input \in ParserInputs
  /\ scanner = Render(input)
  /\ parsed = << >>

\* the last call of next() returned None
Exhausted == parsed # << >> /\ parsed[Len(parsed)] = None

\* one call of next(); the caller stops at None
CallNext ==
  /\ ~Exhausted
  /\ \E r \in {Commands_next(scanner)} :
       /\ parsed' = Append(parsed, r.item)
       /\ scanner' = r.scanner
  /\ UNCHANGED <<input, svars, tvars, tenant, wvars, cvars>>

NextParser == CallNext

SpecParser == InitParser /\ [][NextParser]_vars

(***************************************************************************)
(* The command iterator over lines: each element of `input` is a line as   *)
(* a client sends it and the one command the grammar reads it as.  A line  *)
(* that starts with no keyword is an unknown command up to its newline.    *)
(***************************************************************************)
\* the bytes of `floob` and of `bar`
Floob == <<102, 108, 111, 111, 98>>

Bar == <<98, 97, 114>>

Lines ==
  { [cmd |-> Unknown, raw |-> Floob \o <<32>> \o Bar \o <<10>>],
    [cmd |-> Unknown, raw |-> Floob \o <<10>>],
    [cmd |-> Unknown, raw |-> Floob \o <<32>> \o Bar],
    [cmd |-> Unknown, raw |-> Floob \o <<32, 32>> \o Bar \o <<32>> \o Bar \o <<10>>],
    [cmd |-> [op |-> "stats", key |-> << >>, value |-> << >>],
     raw |-> KeyWord.Stats \o <<10>>],
    [cmd |-> [op |-> "get", key |-> <<107>>, value |-> << >>],
     raw |-> KeyWord.Get \o <<32>> \o Quoted(<<107>>) \o <<10>>] }

RECURSIVE Concat(_)
Concat(in) == IF in = << >> THEN << >> ELSE Head(in).raw \o Concat(Tail(in))

\* every line but the last ends with a newline
LineInputs ==
  {in \in UNION {[1..n -> Lines] : n \in 1..MaxCommands} :
     \A i \in 1..(Len(in) - 1) : in[i].raw[Len(in[i].raw)] = 10}

InitLines ==
  /\ store = EmptyStore
  /\ tenant = [p \in Procs |-> <<97>>]
  /\ pc = [p \in Procs |-> "idle"]
  /\ cmd = [p \in Procs |-> NoCommand]
  /\ trx = [p \in Procs |-> NoTrx]
  /\ res = [p \in Procs |-> NoResult]
  /\ attempts = [p \in Procs |-> 0]
  /\ conflicting = [p \in Procs |-> {}]
  /\ txns = 0
  /\ faults = 0
  /\ stats_holder = [t \in Tenants |-> [count |-> 0, size |-> 0]]
  /\ items = [t \in Tenants |-> [k \in Keys |-> None]]
  /\ ServerInit
  /\ WorkloadIdle
  /\ ReaderIdle
  /\ input \in LineInputs
  /\ scanner = Concat(input)
  /\ parsed = << >>

NextLines == CallNext

SpecLines == InitLines /\ [][NextLines]_vars

(***************************************************************************)
(* The command iterator over any read buffer: `input` is a sequence of     *)
(* pieces (whitespace, a newline, a quote, keywords, a quoted group, a     *)
(* letter) in any order, the buffer their concatenation.                   *)
(***************************************************************************)
Tokens ==
  {<<32>>, <<10>>, <<34>>, KeyWord.Get, KeyWord.Quit, Quoted(<<107>>), <<120>>}

RECURSIVE Flatten(_)
Flatten(in) == IF in = << >> THEN << >> ELSE Head(in) \o Flatten(Tail(in))

InitBytes ==
  /\ store = EmptyStore
  /\ tenant = [p \in Procs |-> <<97>>]
  /\ pc = [p \in Procs |-> "idle"]
  /\ cmd = [p \in Procs |-> NoCommand]
  /\ trx = [p \in Procs |-> NoTrx]
  /\ res = [p \in Procs |-> NoResult]
  /\ attempts = [p \in Procs |-> 0]
  /\ conflicting = [p \in Procs |-> {}]
  /\ txns = 0
  /\ faults = 0
  /\ stats_holder = [t \in Tenants |-> [count |-> 0, size |-> 0]]
  /\ items = [t \in Tenants |-> [k \in Keys |-> None]]
  /\ ServerInit
  /\ WorkloadIdle
  /\ ReaderIdle
  /\ input \in UNION {[1..n -> Tokens] : n \in 1..MaxTokens}
  /\ scanner = Flatten(input)
  /\ parsed = << >>

NextBytes == CallNext

\* the for loop of handle_requests calls next() until it returns None
SpecBytes == InitBytes /\ [][NextBytes]_vars /\ WF_vars(CallNext)

(***************************************************************************)
(* The simulation workload.  Client p (client_id p - 1) works on its own   *)
(* tenant: setup, then `iterations` calls of simulate, each one            *)
(* transaction that applies an event of the WAL, then check.               *)
(***************************************************************************)
client_id(p) == p - 1

\* what init, simulate and verify return: Ok, or an FdbBindingError
Outcomes == {"Ok", "NonRetryableFdbError", "CustomError"}

\* the events of the WAL, as commands on the tenant's cabinet
WalEvents ==
  {c \in Commands : c.op \in {"put", "delete", "clear"} /\ c.key \in {<<107>>, << >>}}

InitWorkload ==
  /\ store = EmptyStore
  /\ tenant = [p \in Procs |-> IF client_id(p) = 0 THEN <<97>> ELSE <<97, 0, 20>>]
  /\ pc = [p \in Procs |-> "idle"]
  /\ cmd = [p \in Procs |-> NoCommand]
  /\ trx = [p \in Procs |-> NoTrx]
  /\ res = [p \in Procs |-> NoResult]
  /\ attempts = [p \in Procs |-> 0]
  /\ conflicting = [p \in Procs |-> {}]
  /\ txns = 0
  /\ faults = 0
  /\ stats_holder = [t \in Tenants |-> [count |-> 0, size |-> 0]]
  /\ items = [t \in Tenants |-> [k \in Keys |-> None]]
  /\ ServerInit
  /\ ParserIdle
  /\ WorkloadIdle
  /\ ReaderIdle

\* one turn of the loop of setup: only client 0 calls init; Ok and any
\* error but NonRetryableFdbError break, NonRetryableFdbError continues
Workload_setup(p, outcome) ==
  /\ workload[p].phase \in {"new", "setup"}
  /\ IF client_id(p) # 0
     THEN /\ outcome = "Ok"
          /\ workload' = [workload EXCEPT ![p].phase = "start"]
          /\ UNCHANGED faults
     ELSE /\ outcome # "Ok" => faults < MaxFaults
          /\ faults' = IF outcome = "Ok" THEN faults ELSE faults + 1
          /\ workload' = [workload EXCEPT
               ![p].init_calls = @ + 1,
               ![p].outcome = outcome,
               ![p].phase = IF outcome = "NonRetryableFdbError"
                            THEN "setup" ELSE "start"]
  /\ UNCHANGED <<store, tenant, pc, cmd, trx, res, attempts, conflicting, txns,
                 stats_holder, items, svars, pvars, cvars>>

\* simulate takes the next event of the WAL and enters with_cabinet, which
\* runs the first attempt of its transaction
simulate(p, c, fault) ==
  /\ workload[p].phase = "start"
  /\ ~workload[p].in_flight
  /\ workload[p].iteration < MaxIterations
  /\ pc[p] = "idle"
  /\ workload' = [workload EXCEPT ![p].in_flight = TRUE,
                                  ![p].simulate_calls = @ + 1]
  /\ txns' = txns + 1
  /\ Attempt(p, c, 1, fault)
  /\ UNCHANGED <<store, tenant, stats_holder, items, svars, pvars, cvars>>

\* what with_cabinet returned to simulate or verify
OutcomeOf(r) ==
  IF r.ok THEN "Ok"
  ELSE IF r.err = "FdbError" THEN "NonRetryableFdbError" ELSE "CustomError"

\* variant: an iteration that failed is run again
Workload_start_retry(p) ==
  /\ workload[p].phase = "start"
  /\ workload[p].in_flight
  /\ pc[p] = "idle"
  /\ workload' = [workload EXCEPT
       ![p].in_flight = FALSE,
       ![p].outcome = OutcomeOf(res[p]),
       ![p].iteration = IF res[p].ok THEN @ + 1 ELSE @,
       ![p].successful_iteration = IF res[p].ok THEN @ + 1 ELSE @,
       ![p].failed_iterations = IF res[p].ok THEN @ ELSE @ + 1,
       ![p].phase = IF res[p].ok /\ workload[p].iteration + 1 = MaxIterations
                    THEN "check" ELSE "start"]
  /\ UNCHANGED <<tvars, tenant, svars, pvars, cvars>>

\* simulate has returned: the match of the for loop of start counts the
\* iteration as successful or failed and the loop goes to its next turn;
\* after the last turn start returns
Workload_start(p) ==
  /\ workload[p].phase = "start"
  /\ workload[p].in_flight
  /\ pc[p] = "idle"
  /\ workload' = [workload EXCEPT
       ![p].in_flight = FALSE,
       ![p].outcome = OutcomeOf(res[p]),
       ![p].iteration = @ + 1,
       ![p].successful_iteration = IF res[p].ok THEN @ + 1 ELSE @,
       ![p].failed_iterations = IF res[p].ok THEN @ ELSE @ + 1,
       ![p].phase = IF workload[p].iteration + 1 = MaxIterations
                    THEN "check" ELSE "start"]
  /\ UNCHANGED <<tvars, tenant, svars, pvars, cvars>>

\* verify: one transaction reads both counters of the tenant and compares
\* them with the expected ones; fault: the store fails the read
verify(p, fault) ==
  LET stats == Cabinet_get_stats(Cabinet_new(p, tenant[p]))
      count == StatsHolder_get_count(with_transaction(store, p), stats)
      size  == StatsHolder_get_size(count.T, stats)
  IN  IF fault = "fatal" THEN "NonRetryableFdbError"
      ELSE IF ~count.ok \/ ~size.ok THEN "CustomError"
      ELSE IF size.val # stats_holder[tenant[p]].size THEN "CustomError"
      ELSE IF count.val # stats_holder[tenant[p]].count THEN "CustomError"
      ELSE "Ok"

\* one turn of the loop of check: Ok and any error but NonRetryableFdbError
\* break, NonRetryableFdbError continues
Workload_check(p, fault) ==
  /\ workload[p].phase = "check"
  /\ fault # "none" => faults < MaxFaults
  /\ faults' = IF fault = "none" THEN faults ELSE faults + 1
  /\ \E outcome \in {verify(p, fault)} :
       workload' = [workload EXCEPT
         ![p].verify_calls = @ + 1,
         ![p].outcome = outcome,
         ![p].phase = IF outcome = "NonRetryableFdbError" THEN "check" ELSE "done"]
  /\ UNCHANGED <<store, tenant, pc, cmd, trx, res, attempts, conflicting, txns,
                 stats_holder, items, svars, pvars, cvars>>

NextWorkload ==
  \/ \E p \in Procs, outcome \in Outcomes : Workload_setup(p, outcome)
  \/ \E p \in Procs, c \in WalEvents, fault \in Faults : simulate(p, c, fault)
  \/ \E p \in Procs, fault \in Faults : Run(p, fault)
  \/ \E p \in Procs, outcome \in {"committed", "unknown", "failed"} : Commit(p, outcome)
  \/ \E p \in Procs : Workload_start(p)
  \/ \E p \in Procs, fault \in {"none", "fatal"} : Workload_check(p, fault)

SpecWorkload == InitWorkload /\ [][NextWorkload]_vars

(***************************************************************************)
(* Sequential executions without overwriting puts: a command is received   *)
(* only when no transaction is in progress, and a put only for a key that  *)
(* is not stored for the tenant of the connection.                         *)
(***************************************************************************)
\* variant: any put is received
BeginSequential_any(p, c, fault) ==
  /\ \A q \in Procs : pc[q] = "idle"
  /\ Begin(p, c, fault)

BeginSequential(p, c, fault) ==
  /\ \A q \in Procs : pc[q] = "idle"
  /\ c.op = "put" => ItemKey(Cabinet_new(p, tenant[p]), c.key) \notin DOMAIN store
  /\ Begin(p, c, fault)

NextSequential ==
  \/ \E p \in Procs, c \in Commands, fault \in Faults : BeginSequential(p, c, fault)
  \/ \E p \in Procs, fault \in Faults : Run(p, fault)
  \/ \E p \in Procs, outcome \in {"committed", "unknown", "failed"} : Commit(p, outcome)

SpecSequential == Init /\ [][NextSequential]_vars

(***************************************************************************)
(* The counter getters on their own.  The store starts with the counter    *)
(* keys of one tenant absent or holding any of a few byte strings, of      *)
(* eight bytes and of other lengths; a reader calls get_count or get_size  *)
(* in a transaction of its own, and a connection may clear the tenant.     *)
(***************************************************************************)
CounterValues == {0, 1, -1, 300}

CounterBlobs ==
  {to_le_bytes(n) : n \in CounterValues}
    \cup {<< >>, <<1>>, ZeroBytes(7), ZeroBytes(9)}

\* a store that holds the counters c and s (None: no key) of tenant t
StoredCounters(t, c, s) ==
  [x \in {k \in {CountKey(t)} : c # None} \cup {k \in {SizeKey(t)} : s # None} |->
     IF x = CountKey(t) /\ c # None THEN c[1] ELSE s[1]]

InitCounters ==
  /\ store \in {StoredCounters(<<97>>, c, s) :
                  c \in {None} \cup {Some(b) : b \in CounterBlobs},
                  s \in {None} \cup {Some(b) : b \in CounterBlobs}}
  /\ tenant = [p \in Procs |-> <<97>>]
  /\ pc = [p \in Procs |-> "idle"]
  /\ cmd = [p \in Procs |-> NoCommand]
  /\ trx = [p \in Procs |-> NoTrx]
  /\ res = [p \in Procs |-> NoResult]
  /\ attempts = [p \in Procs |-> 0]
  /\ conflicting = [p \in Procs |-> {}]
  /\ txns = 0
  /\ faults = 0
  /\ stats_holder = [t \in Tenants |-> [count |-> 0, size |-> 0]]
  /\ items = [t \in Tenants |-> [k \in Keys |-> None]]
  /\ ServerInit
  /\ ParserIdle
  /\ WorkloadIdle
  /\ ReaderIdle

\* what a call returned, with what it left in its transaction
Reading(stat, t, r) ==
  [stat |-> stat, tenant |-> t, ok |-> r.ok, val |-> r.val,
   err |-> IF r.ok THEN "" ELSE "InvalidCountStatsValue",
   buffer |-> r.T[0].buffer, rc |-> r.T[0].rc]

\* get_count of tenant t in a fresh transaction
GetCount(t) ==
  /\ got' = Reading("count", t,
                    StatsHolder_get_count(with_transaction(store, 0),
                                          Cabinet_get_stats(Cabinet_new(0, t))))
  /\ UNCHANGED <<tvars, tenant, svars, pvars, wvars>>

\* get_size of tenant t in a fresh transaction
GetSize(t) ==
  /\ got' = Reading("size", t,
                    StatsHolder_get_size(with_transaction(store, 0),
                                         Cabinet_get_stats(Cabinet_new(0, t))))
  /\ UNCHANGED <<tvars, tenant, svars, pvars, wvars>>

NextCounters ==
  \/ \E t \in Tenants : GetCount(t)
  \/ \E t \in Tenants : GetSize(t)
  \/ \E p \in Procs :
       Begin(p, [op |-> "clear", key |-> << >>, value |-> << >>], "none")
  \/ \E p \in Procs : Commit(p, "committed")

SpecCounters == InitCounters /\ [][NextCounters]_vars

(***************************************************************************)
(* Observations of the committed store.                                    *)
(***************************************************************************)
IsPrefix(a, b) == Len(a) <= Len(b) /\ SubSeq(b, 1, Len(a)) = a

\* x is a key of the subspace with prefix sub: sub followed by at least one
\* tuple element (an element starts with a type code strictly between 0
\* and 255, so that an escaped zero byte of a longer string does not count)
InSubspace(x, sub) ==
  /\ IsPrefix(sub, x)
  /\ Len(x) > Len(sub)
  /\ x[Len(sub) + 1] \notin {0, 255}

\* the store keys <t, 0, ...>: the data section of tenant t
DataKeys(s, t) ==
  {x \in DOMAIN s : InSubspace(x, PackStr(t) \o PackInt(Prefix_Data))}

\* everything stored under <t, ...>: data keys and counters of tenant t
TenantView(s, t) ==
  LET keys == {x \in DOMAIN s : InSubspace(x, PackStr(t))}
  IN  [x \in keys |-> s[x]]

\* the counters of tenant t as a fresh transaction on store s reads them
ReadCount(s, t) ==
  StatsHolder_get_count(0 :> NewTransaction(s), Cabinet_get_stats(Cabinet_new(0, t))).val

ReadSize(s, t) ==
  StatsHolder_get_size(0 :> NewTransaction(s), Cabinet_get_stats(Cabinet_new(0, t))).val

RECURSIVE SumLen(_, _)
SumLen(s, keys) ==
  IF keys = {} THEN 0
  ELSE LET x == CHOOSE y \in keys : TRUE
       IN  Len(s[x]) + SumLen(s, keys \ {x})

\* process p takes a step
Acts(p) ==
  \/ pc'[p] # pc[p]
  \/ attempts'[p] # attempts[p]
  \/ cmd'[p] # cmd[p]
  \/ res'[p] # res[p]

\* the closure of p has run to its end in this step
Executed(p) == pc[p] \in {"idle", "run"} /\ pc'[p] = "commit"

\* the wrapper of p returns Ok in this step: its transaction is committed
Reported(p) == pc[p] = "commit" /\ pc'[p] = "idle"

\* p has completed a transaction with command op
Completed(p, op) ==
  pc[p] = "idle" /\ attempts[p] >= 1 /\ res[p].ok /\ cmd[p].op = op

(***************************************************************************)
(* C1: after every committed transaction the count counter of every tenant *)
(* equals the number of data keys stored for the tenant.                   *)
(***************************************************************************)
C1_CountEqualsKeys ==
  \A t \in Tenants : ReadCount(store, t) = Cardinality(DataKeys(store, t))

(***************************************************************************)
(* C2: after every committed transaction the size counter of every tenant  *)
(* equals the sum of the lengths of the blobs stored at its data keys.     *)
(***************************************************************************)
C2_SizeEqualsBytes ==
  \A t \in Tenants : ReadSize(store, t) = SumLen(store, DataKeys(store, t))

(***************************************************************************)
(* C3: tenant isolation.  A step of a connection bound to tenant t leaves  *)
(* every store key of every other tenant unchanged, and what its closure   *)
(* returns is an item or a pair of counters of t itself.                   *)
(***************************************************************************)
C3_TenantIsolation ==
  [][\A p \in Procs : Acts(p) =>
       /\ \A t \in Tenants \ {tenant[p]} :
             TenantView(store', t) = TenantView(store, t)
       /\ Executed(p) =>
             /\ cmd'[p].op \in {"get", "delete"} =>
                  res'[p].item \in {None, items[tenant[p]][cmd'[p].key]}
             /\ cmd'[p].op = "stats" =>
                  res'[p].stats = Some(stats_holder[tenant[p]])]_vars

\* a tenant has cleared its data and read its counters while another tenant
\* holds data
C3_Witness ==
  \E p, q \in Procs :
    /\ tenant[p] # tenant[q]
    /\ Completed(p, "stats")
    /\ res[p].stats = Some([count |-> 0, size |-> 0])
    /\ Completed(q, "put")
    /\ DataKeys(store, tenant[q]) # {}

(***************************************************************************)
(* C4: when a clear() of tenant t commits, t has no data keys left and     *)
(* both its counters read 0, and the keys of every other tenant are        *)
(* unchanged.                                                              *)
(***************************************************************************)
C4_ClearEmptiesTenant ==
  [][\A p \in Procs : (Reported(p) /\ cmd[p].op = "clear") =>
       /\ DataKeys(store', tenant[p]) = {}
       /\ ReadCount(store', tenant[p]) = 0
       /\ ReadSize(store', tenant[p]) = 0
       /\ \A t \in Tenants \ {tenant[p]} :
             TenantView(store', t) = TenantView(store, t)]_vars

\* a clear was committed after a put of the same tenant, next to a tenant
\* that still holds data
C4_Witness ==
  \E p, q \in Procs :
    /\ tenant[p] = tenant[q]
    /\ Completed(p, "clear")
    /\ Completed(q, "put")
    /\ TenantView(store, tenant[p]) = EmptyStore

(***************************************************************************)
(* C5: delete(k) of a key that is absent for the tenant returns None,      *)
(* buffers nothing, and its commit leaves the whole store unchanged.       *)
(***************************************************************************)
C5_DeleteAbsentIsNoOp ==
  [][\A p \in Procs :
       /\ (Executed(p) /\ cmd'[p].op = "delete"
             /\ items[tenant[p]][cmd'[p].key] = None) =>
            (res'[p].item = None /\ trx'[p].buffer = << >>)
       /\ (pc[p] = "commit" /\ Acts(p) /\ cmd[p].op = "delete"
             /\ res[p].item = None) =>
            store' = store]_vars

\* a delete of an absent key has completed for a tenant that holds data
C5_Witness ==
  \E p \in Procs :
    /\ Completed(p, "delete")
    /\ res[p].item = None
    /\ DataKeys(store, tenant[p]) # {}

(***************************************************************************)
(* C6: data and counters are atomic per transaction.  A step changes the   *)
(* store only as the commit of one attempt, and then the data mutation and *)
(* both counter mutations of its command are all present; every other      *)
(* step (a failed read, a failed commit, a retry) leaves the store as it   *)
(* is.                                                                     *)
(***************************************************************************)
EffectComplete(p) ==
  LET t == tenant[p]
      c == cmd[p]
      k == ItemKey(Cabinet_new(p, t), c.key)
  IN  CASE c.op = "put" ->
             /\ StoreGet(store', k) = Some(as_bytes(Item_new(c.key, c.value)))
             /\ ReadCount(store', t) = ReadCount(store, t) + 1
             /\ ReadSize(store', t) =
                  ReadSize(store, t) + Len(as_bytes(Item_new(c.key, c.value)))
        [] c.op = "delete" /\ res[p].item # None ->
             /\ StoreGet(store', k) = None
             /\ ReadCount(store', t) = ReadCount(store, t) - 1
             /\ ReadSize(store', t) =
                  ReadSize(store, t) - Len(as_bytes(res[p].item[1]))
        [] c.op = "clear" ->
             /\ DataKeys(store', t) = {}
             /\ ReadCount(store', t) = 0
             /\ ReadSize(store', t) = 0
        [] OTHER -> FALSE

C6_DataAndCountersAtomic ==
  [][store' # store =>
       \E p \in Procs : pc[p] = "commit" /\ Acts(p) /\ EffectComplete(p)]_vars

\* a put was committed at its second attempt and data and counters are there
C6_Witness ==
  \E p \in Procs :
    /\ Completed(p, "put")
    /\ attempts[p] = 2
    /\ Cardinality(DataKeys(store, tenant[p])) = 1
    /\ ReadCount(store, tenant[p]) = 1
    /\ ReadSize(store, tenant[p]) = Len(as_bytes(Item_new(cmd[p].key, cmd[p].value)))

(***************************************************************************)
(* C7: retry idempotency of put.  Of the commit steps of a put             *)
(* transaction, the one that makes the wrapper return stores the item and  *)
(* adds 1 to count and len(as_bytes(item)) to size; every commit step that *)
(* leads to another attempt leaves the store unchanged.  Hence the         *)
(* transaction has the effect of one run of the closure however many       *)
(* attempts it takes.                                                      *)
(***************************************************************************)
C7_PutRetryIdempotent ==
  [][\A p \in Procs : (cmd[p].op = "put" /\ pc[p] = "commit" /\ Acts(p)) =>
       IF pc'[p] = "idle"
       THEN /\ ReadCount(store', tenant[p]) = ReadCount(store, tenant[p]) + 1
            /\ ReadSize(store', tenant[p]) = ReadSize(store, tenant[p])
                 + Len(as_bytes(Item_new(cmd[p].key, cmd[p].value)))
            /\ stats_holder'[tenant[p]].count = ReadCount(store', tenant[p])
            /\ stats_holder'[tenant[p]].size = ReadSize(store', tenant[p])
       ELSE store' = store]_vars

\* the only transaction so far is a put that needed a second attempt, and
\* the counters show one item
C7_Witness ==
  \E p \in Procs :
    /\ Completed(p, "put")
    /\ attempts[p] >= 2
    /\ txns = 1
    /\ ReadCount(store, tenant[p]) = 1

(***************************************************************************)
(* C8: transactions of one tenant on the same key are serialized by the    *)
(* conflict resolver.  A delete that returned an item and commits is       *)
(* ordered after every transaction committed before it, so the key must    *)
(* still hold that item when the delete commits (two deletes of one live   *)
(* key cannot both return the item and both decrement the counters).       *)
(***************************************************************************)
C8_SameKeySerialized ==
  [][\A p \in Procs :
       (Reported(p) /\ cmd[p].op = "delete" /\ res[p].item # None) =>
          items[tenant[p]][cmd[p].key] = res[p].item]_vars

(***************************************************************************)
(* C9: concurrent puts of one tenant never conflict.  No attempt of a put  *)
(* is rejected by the resolver, whatever commits while it is in flight,    *)
(* and the counters are the sums of the increments of the transactions     *)
(* reported committed.                                                     *)
(***************************************************************************)
\* every transaction started so far is the put recorded in cmd: each
\* process has started at most one transaction, a put
OnlyPuts == txns = Cardinality({p \in Procs : cmd[p].op = "put"})

PutsCommitted(t) == {p \in Procs : tenant[p] = t /\ Completed(p, "put")}

RECURSIVE SumPutSizes(_)
SumPutSizes(ps) ==
  IF ps = {} THEN 0
  ELSE LET p == CHOOSE q \in ps : TRUE
       IN  Len(as_bytes(Item_new(cmd[p].key, cmd[p].value))) + SumPutSizes(ps \ {p})

C9_DisjointPutsNeverConflict ==
  /\ \A p \in Procs : (cmd[p].op = "put" /\ pc[p] = "commit") => conflicting[p] = {}
  /\ OnlyPuts =>
        \A t \in Tenants :
          /\ ReadCount(store, t) = Cardinality(PutsCommitted(t))
          /\ ReadSize(store, t) = SumPutSizes(PutsCommitted(t))

\* two puts of one tenant on different keys ran concurrently: one has
\* committed at its first attempt while the other, which ran before that
\* commit, awaits its own
C9_Witness ==
  \E p, q \in Procs :
    /\ tenant[p] = tenant[q]
    /\ cmd[p].op = "put" /\ cmd[q].op = "put"
    /\ cmd[p].key # cmd[q].key
    /\ txns = 2
    /\ Completed(p, "put") /\ attempts[p] = 1
    /\ pc[q] = "commit" /\ attempts[q] = 1
    /\ ReadCount(store, tenant[p]) = 1

(***************************************************************************)
(* C10: put/get round trip.  get(k) of tenant t returns the item of the    *)
(* last committed put on k of t, and None when there is none or a delete   *)
(* of k or a clear of t was committed after it.                            *)
(***************************************************************************)
C10_PutGetRoundTrip ==
  [][\A p \in Procs :
       (Executed(p) /\ cmd'[p].op = "get") =>
          res'[p].item = items[tenant[p]][cmd'[p].key]]_vars

\* a get has returned an item with a non-empty value
C10_Witness ==
  \E p \in Procs :
    /\ Completed(p, "get")
    /\ res[p].item = Some(Item_new(cmd[p].key, <<118>>))

(***************************************************************************)
(* Observations of a connection.                                           *)
(***************************************************************************)
\* the command iterator of p yields its next item in this step
Yields(p) == wire'[p] # wire[p]

\* the item it yields
Yielded(p) == wire'[p][Len(wire'[p])]

\* the last response written to the socket of p after this step
Written(p) == socket'[p][Len(socket'[p])]

\* the responses written to the socket of p
Responses(p) == {socket[p][i] : i \in 1..Len(socket[p])}

(***************************************************************************)
(* C11: auth gate.  On a connection without a successful AUTH every data   *)
(* command is answered AUTHREQUIRED, opens no transaction, leaves the      *)
(* store as it is, and the connection goes on with its buffer.             *)
(***************************************************************************)
C11_AuthGate ==
  [][\A p \in Procs :
       (Yields(p) /\ Yielded(p).op \in DataOps /\ ~state[p].authenticated) =>
          /\ socket'[p] = Append(socket[p], Response_AuthRequired)
          /\ conn'[p] = "handling"
          /\ state' = state
          /\ UNCHANGED <<store, pc, trx, attempts, txns>>]_vars

\* an unauthenticated connection was answered AUTHREQUIRED after a failed
\* AUTH and is back in its select loop, the response flushed
C11_Witness ==
  \E p \in Procs :
    /\ ~state[p].authenticated
    /\ conn[p] = "select"
    /\ socket[p] = <<Response_Error("Authentication failed"), Response_AuthRequired>>
    /\ flushed[p] = 2
    /\ attempts[p] = 0

(***************************************************************************)
(* C12: QUIT closes the connection.  The step in which the select loop     *)
(* receives the quit signal of a QUIT command leaves the loop, with no     *)
(* EOF, read error or shutdown signal.                                     *)
(***************************************************************************)
C12_QuitCloses ==
  [][\A p \in Procs : (quit_rx[p] /\ ~quit_rx'[p]) => Closed(p)']_vars

(***************************************************************************)
(* C13: a non-retryable error of a data command is answered with an ERROR  *)
(* response and the connection goes on with its buffer.                    *)
(***************************************************************************)
C13_CommandErrorAnswered ==
  [][\A p \in Procs :
       (conn[p] = "awaiting" /\ pc[p] = "idle" /\ ~res[p].ok /\ conn'[p] # conn[p]) =>
          /\ conn'[p] = "handling"
          /\ Len(socket'[p]) = Len(socket[p]) + 1
          /\ Written(p).kind = "Error"]_vars

(***************************************************************************)
(* C14: a parse error is answered with an ERROR response and the           *)
(* connection continues; a connection ends only by EOF, a socket error or  *)
(* the shutdown signal (or QUIT).                                          *)
(***************************************************************************)
C14_ParseErrorAnswered ==
  [][\A p \in Procs :
       /\ (Yields(p) /\ Yielded(p).op \in {"parse_error", "unknown"}) =>
             /\ conn'[p] = "handling"
             /\ Len(socket'[p]) = Len(socket[p]) + 1
             /\ Written(p).kind = "Error"
       /\ (Closed(p)' /\ ~Closed(p)) =>
             conn'[p] \in {"eof", "read_error", "shutdown"}]_vars

C16_CommandsSeeEarlierOnes ==
  [][\A p \in Procs :
       /\ Yields(p) => (pc[p] = "idle" /\ trx[p] = NoTrx)
       /\ (Yields(p) /\ Yielded(p).op \in DataOps /\ state[p].authenticated) =>
            /\ conn'[p] = "awaiting"
            /\ tenant'[p] = state[p].tenant[1]
            /\ cmd'[p] = Yielded(p)
       /\ (Executed(p) /\ cmd'[p].op = "get") =>
            res'[p].item = items[tenant'[p]][cmd'[p].key]
       /\ (Executed(p) /\ cmd'[p].op = "stats") =>
            res'[p].stats = Some([count |-> ReadCount(store, tenant'[p]),
                                  size  |-> ReadSize(store, tenant'[p])])]_vars

\* auth, put, put, stats sent in one buffer: OK, OK, OK and cardinality 2
C16_Witness ==
  \E p \in Procs :
    /\ reads = 1
    /\ conn[p] = "select"
    /\ socket[p] = <<Response_Ok, Response_Ok, Response_Ok,
                     Response_Stats(2, Len(as_bytes(Item_new(<<107>>, <<118>>)))
                                       + Len(as_bytes(Item_new(<<0>>, << >>))))>>

C18_StartFailureReported ==
  /\ listener = "failed" =>
        (run_result = Some("Err") /\ \A p \in Procs : conn[p] = "none")
  /\ listener = "stopped" => run_result = Some("Ok")

(***************************************************************************)
(* C19: the reference model of the stats workload.  When every client      *)
(* works on its own tenant, the in-memory (count, size) of a client equals *)
(* the counters stored for its tenant after every simulate step.           *)
(***************************************************************************)
C19_WorkloadMatchesStore ==
  (\A p, q \in Procs : p # q => tenant[p] # tenant[q]) =>
     \A p \in Procs :
       stats_holder[tenant[p]] = [count |-> ReadCount(store, tenant[p]),
                                  size  |-> ReadSize(store, tenant[p])]

\* a client has put twice and deleted one of its keys on its own tenant
C19_Witness ==
  /\ tenant[1] # tenant[2]
  /\ \E p \in Procs :
       /\ Completed(p, "delete")
       /\ res[p].item # None
       /\ stats_holder[tenant[p]].count = 1
       /\ stats_holder[tenant[p]].size > 0

\* the values next() has returned that are commands
Yield == IF Exhausted
         THEN SubSeq(parsed, 1, Len(parsed) - 1) ELSE parsed

CmdKey(p) == ItemKey(Cabinet_new(p, tenant[p]), cmd[p].key)

(***************************************************************************)
(* C21: delete of a present key.  A delete that runs while its key is      *)
(* stored returns the decoded stored item (and the command is answered     *)
(* OK); when it commits, the data key is gone, count is one less, size is  *)
(* less by the length of the blob that was stored, and every other key of  *)
(* the store is as before.                                                 *)
(***************************************************************************)
C21_DeletePresent ==
  [][\A p \in Procs :
       /\ (Executed(p) /\ cmd'[p].op = "delete" /\ CmdKey(p)' \in DOMAIN store) =>
            /\ res'[p].item = Some(from_bytes(store[CmdKey(p)']))
            /\ as_bytes(res'[p].item[1]) = store[CmdKey(p)']
            /\ ResponseOf(cmd'[p], res'[p]) = Response_Ok
       /\ (Reported(p) /\ cmd[p].op = "delete" /\ res[p].item # None) =>
            /\ CmdKey(p) \notin DOMAIN store'
            /\ ReadCount(store', tenant[p]) = ReadCount(store, tenant[p]) - 1
            /\ ReadSize(store', tenant[p]) =
                 ReadSize(store, tenant[p]) - Len(as_bytes(res[p].item[1]))
            /\ \A x \in (DOMAIN store \cup DOMAIN store')
                          \ {CmdKey(p), CountKey(tenant[p]), SizeKey(tenant[p])} :
                 StoreGet(store', x) = StoreGet(store, x)]_vars

\* a delete of a stored key was committed for a tenant that keeps another key
C21_Witness ==
  \E p \in Procs :
    /\ Completed(p, "delete")
    /\ res[p].item # None
    /\ CmdKey(p) \notin DOMAIN store
    /\ Cardinality(DataKeys(store, tenant[p])) = 1
    /\ ReadCount(store, tenant[p]) = 1

(***************************************************************************)
(* C22: put does not read the prior value.  The closure of a put reads     *)
(* nothing and buffers the set of the blob and the two atomic adds; when   *)
(* a put on a key that is stored commits, the blob is replaced, count is   *)
(* one more and size is more by the length of the new blob, with nothing   *)
(* subtracted for the blob that was replaced.                              *)
(***************************************************************************)
C22_PutOverwriteCountsAgain ==
  [][\A p \in Procs :
       /\ (Executed(p) /\ cmd'[p].op = "put") =>
            /\ trx'[p].rc = {}
            /\ trx'[p].buffer =
                 << [op |-> "set", key |-> CmdKey(p)',
                     param |-> as_bytes(Item_new(cmd'[p].key, cmd'[p].value))],
                    [op |-> "add", key |-> SizeKey(tenant[p]),
                     param |-> to_le_bytes(Len(as_bytes(Item_new(cmd'[p].key, cmd'[p].value))))],
                    [op |-> "add", key |-> CountKey(tenant[p]),
                     param |-> to_le_bytes(1)] >>
       /\ (Reported(p) /\ cmd[p].op = "put" /\ CmdKey(p) \in DOMAIN store) =>
            /\ store'[CmdKey(p)] = as_bytes(Item_new(cmd[p].key, cmd[p].value))
            /\ ReadCount(store', tenant[p]) = ReadCount(store, tenant[p]) + 1
            /\ ReadSize(store', tenant[p]) =
                 ReadSize(store, tenant[p])
                   + Len(as_bytes(Item_new(cmd[p].key, cmd[p].value)))]_vars

\* a put has replaced a stored blob by a shorter one: one key, count 2
C22_Witness ==
  \E p \in Procs :
    /\ Completed(p, "put")
    /\ cmd[p].value = << >>
    /\ Cardinality(DataKeys(store, tenant[p])) = 1
    /\ ReadCount(store, tenant[p]) = 2
    /\ ReadSize(store, tenant[p]) =
         Len(as_bytes(Item_new(cmd[p].key, <<118>>)))
           + Len(as_bytes(Item_new(cmd[p].key, << >>)))

\* the closure of p buffered an atomic add of a negative number
Decrements(buffer) ==
  \E i \in 1..Len(buffer) :
    buffer[i].op = "add" /\ from_le_bytes(buffer[i].param) < 0

(***************************************************************************)
(* C23: the Delete event is emitted only after the key was read present.   *)
(* An attempt buffers a decrement of a counter only when it is a delete    *)
(* whose read, in that same attempt, found the key stored; the commit of a *)
(* delete whose read found nothing leaves both counters as they are.       *)
(***************************************************************************)
C23_DeleteEventOnlyIfPresent ==
  [][\A p \in Procs :
       /\ (Executed(p) /\ Decrements(trx'[p].buffer)) =>
            /\ cmd'[p].op = "delete"
            /\ CmdKey(p)' \in DOMAIN store
            /\ res'[p].item # None
       /\ (Executed(p) /\ cmd'[p].op = "delete" /\ CmdKey(p)' \notin DOMAIN store) =>
            /\ res'[p].item = None
            /\ ~Decrements(trx'[p].buffer)
       /\ (Reported(p) /\ cmd[p].op = "delete" /\ res[p].item = None) =>
            /\ ReadCount(store', tenant[p]) = ReadCount(store, tenant[p])
            /\ ReadSize(store', tenant[p]) = ReadSize(store, tenant[p])]_vars

\* a delete that found its key absent was committed after a delete of the
\* same tenant that found it present; the counters are back at zero
C23_Witness ==
  \E p, q \in Procs :
    /\ p # q
    /\ tenant[p] = tenant[q]
    /\ Completed(p, "delete") /\ res[p].item = None
    /\ Completed(q, "delete") /\ res[q].item # None
    /\ cmd[p].key = cmd[q].key
    /\ CountKey(tenant[p]) \in DOMAIN store
    /\ ReadCount(store, tenant[p]) = 0
    /\ ReadSize(store, tenant[p]) = 0

\* what a getter must return for the stored counter v (None: no key)
GetterContract(v) ==
  /\ v = None => (got'.ok /\ got'.val = 0)
  /\ (v # None /\ Len(v[1]) = 8) =>
       (got'.ok /\ got'.val \in CounterValues /\ to_le_bytes(got'.val) = v[1])
  /\ (v # None /\ Len(v[1]) # 8) =>
       (~got'.ok /\ got'.err = "InvalidCountStatsValue")
  /\ got'.buffer = << >>
  /\ got'.rc = {}
  /\ store' = store

(***************************************************************************)
(* C24: get_count and get_size return 0 when the counter key is absent,    *)
(* the stored signed 64-bit number when the key holds eight bytes, and     *)
(* fail with InvalidCountStatsValue when it holds any other number of      *)
(* bytes; a call writes nothing, adds no read conflict and leaves the      *)
(* store as it is.                                                         *)
(***************************************************************************)
C24_CounterGetters ==
  [][got' # got =>
       /\ got'.stat = "count" => GetterContract(StoreGet(store, CountKey(got'.tenant)))
       /\ got'.stat = "size" => GetterContract(StoreGet(store, SizeKey(got'.tenant)))
       /\ got'.stat \in {"count", "size"}]_vars

\* get_count has failed on a count key of seven bytes
C24_Witness ==
  /\ got.stat = "count"
  /\ ~got.ok
  /\ got.err = "InvalidCountStatsValue"
  /\ StoreGet(store, CountKey(got.tenant)) = Some(ZeroBytes(7))

(***************************************************************************)
(* C25: the state of a connection.  A connection that is authenticated has *)
(* a tenant and its name is not empty; an AUTH with a non-empty name sets  *)
(* the tenant and the flag and is answered OK, an AUTH with an empty name  *)
(* is answered ERROR Authentication failed.                                *)
(***************************************************************************)
C25_AuthenticatedHasTenant ==
  /\ [](\A p \in Procs :
          state[p].authenticated =>
            (state[p].tenant # None /\ state[p].tenant[1] # << >>))
  /\ [][\A p \in Procs :
          (Yields(p) /\ Yielded(p).op = "auth") =>
             IF Yielded(p).key # << >>
             THEN /\ state'[p] = [tenant |-> Some(Yielded(p).key),
                                  authenticated |-> TRUE]
                  /\ socket'[p] = Append(socket[p], Response_Ok)
             ELSE socket'[p] =
                    Append(socket[p], Response_Error("Authentication failed"))]_vars

\* one connection has authenticated to a tenant, another was refused
C25_Witness ==
  \E p, q \in Procs :
    /\ state[p] = [tenant |-> Some(<<97, 0, 20>>), authenticated |-> TRUE]
    /\ socket[p][1] = Response_Ok
    /\ ~state[q].authenticated
    /\ socket[q] # << >>
    /\ socket[q][1] = Response_Error("Authentication failed")

\* connection p has processed a QUIT command
Quitted(p) == \E i \in 1..Len(wire[p]) : wire[p][i].op = "quit"

(***************************************************************************)
(* C26: nothing after QUIT.  Once a connection has processed QUIT, no      *)
(* further command of it is taken from a buffer, no transaction is opened  *)
(* for it and no response is written to its socket.                        *)
(***************************************************************************)
C26_NothingAfterQuit ==
  [][\A p \in Procs :
       Quitted(p) =>
         /\ wire'[p] = wire[p]
         /\ socket'[p] = socket[p]
         /\ attempts'[p] = attempts[p]
         /\ pc'[p] = pc[p]]_vars

(***************************************************************************)
(* C27: an unrecognised line is one Unknown command up to its newline.     *)
(* The calls of next() return one command per line of the input, in order: *)
(* a line that starts with no keyword yields one Unknown, whatever         *)
(* whitespace it has inside, and its later words are no commands of their  *)
(* own.                                                                    *)
(***************************************************************************)
C27_UnknownUpToNewline ==
  /\ Len(Yield) <= Len(input)
  /\ \A i \in 1..Len(Yield) : parsed[i] = Some(input[i].cmd)
  /\ Exhausted => Len(Yield) = Len(input)

\* C28: start calls simulate once per iteration and never again for an
\* iteration that failed: the calls of simulate made so far are the finished
\* iterations plus the one in progress, successful_iteration +
\* failed_iterations is the number of finished iterations at every moment,
\* and once start has returned both are `iterations`.
C28_StartCountsEveryIteration ==
  \A p \in Procs :
    LET w == workload[p]
    IN  /\ w.successful_iteration + w.failed_iterations = w.iteration
        /\ w.simulate_calls = w.iteration + (IF w.in_flight THEN 1 ELSE 0)
        /\ w.iteration <= MaxIterations
        /\ w.phase \in {"new", "setup"} => w.simulate_calls = 0
        /\ w.phase \in {"check", "done"} =>
             /\ w.simulate_calls = MaxIterations
             /\ w.successful_iteration + w.failed_iterations = MaxIterations

C28_Witness ==
  \E p \in Procs :
    /\ workload[p].phase = "check"
    /\ workload[p].successful_iteration >= 1
    /\ workload[p].failed_iterations >= 1

\* C29: in setup and in check, a call of init or verify that returns Ok or
\* NonRetryableFdbError ends the loop, and a call that returns any other
\* error is followed by another turn of the loop.
C29_LoopEndsOnSuccessOrNonRetryable ==
  [][\A p \in Procs :
       (workload'[p].init_calls # workload[p].init_calls
          \/ workload'[p].verify_calls # workload[p].verify_calls) =>
         (workload'[p].outcome \in {"Ok", "NonRetryableFdbError"}
            <=> workload'[p].phase \in {"start", "done"})]_vars

C31_CountersNeverNegative ==
  \A t \in Tenants : ReadCount(store, t) >= 0 /\ ReadSize(store, t) >= 0

\* C32: the commands Auth, Quit and Unknown never reach the closure handed
\* to with_tenant, so its `unreachable!` arm is never executed: the step
\* that takes one of them from the buffer opens no transaction and runs no
\* attempt, and every attempt, the first or a retried one, runs a Put, Get,
\* Delete, Clear or Stats.
C32_UnreachableArmNeverRuns ==
  /\ [](\A p \in Procs :
          /\ (pc[p] # "idle" \/ conn[p] = "awaiting") => cmd[p].op \in DataOps
          /\ res[p].err # "unreachable")
  /\ [][\A p \in Procs :
          /\ (wire'[p] # wire[p]
                /\ wire'[p][Len(wire'[p])].op \in {"auth", "quit", "unknown"}) =>
               /\ UNCHANGED <<tvars, tenant>>
               /\ conn'[p] = "handling"
          /\ attempts'[p] # attempts[p] => cmd'[p].op \in DataOps]_vars

C32_Witness ==
  \E p \in Procs :
    /\ Len(wire[p]) >= 2
    /\ wire[p][Len(wire[p]) - 1].op \in {"quit", "unknown"}
    /\ state[p].authenticated
    /\ conn[p] = "awaiting"
    /\ attempts[p] >= 2

\* the AUTH commands with a non-empty name among the commands w
SuccessfulAuths(w) == {i \in 1..Len(w) : w[i].op = "auth" /\ w[i].key # << >>}

\* the name of the last of them
LastAuth(w) ==
  IF SuccessfulAuths(w) = {} THEN None
  ELSE Some(w[CHOOSE i \in SuccessfulAuths(w) :
                \A j \in SuccessfulAuths(w) : j <= i].key)

\* connection p takes command c from its buffer in this step
Takes(p) == wire'[p] # wire[p]

Taken(p) == wire'[p][Len(wire'[p])]

\* C33: an AUTH with an empty tenant name is answered with an error and
\* leaves the state of the connection as it was, unauthenticated or
\* authenticated as t; a data command that follows it on a connection
\* authenticated as t runs on the cabinet of t.
C33_FailedAuthKeepsState ==
  [][\A p \in Procs :
       /\ (Takes(p) /\ Taken(p).op = "auth" /\ Taken(p).key = << >>) =>
            /\ state'[p] = state[p]
            /\ socket'[p] = Append(socket[p], Response_Error("Authentication failed"))
            /\ UNCHANGED <<tvars, tenant>>
       /\ (Takes(p) /\ Taken(p).op \in DataOps /\ wire[p] # << >>
             /\ wire[p][Len(wire[p])].op = "auth"
             /\ wire[p][Len(wire[p])].key = << >>) =>
            IF LastAuth(wire[p]) = None
            THEN /\ socket'[p] = Append(socket[p], Response_AuthRequired)
                 /\ UNCHANGED <<tvars, tenant>>
            ELSE /\ conn'[p] = "awaiting"
                 /\ tenant'[p] = LastAuth(wire[p])[1]
                 /\ cmd'[p] = Taken(p)]_vars

C33_Witness ==
  \E p \in Procs :
    /\ Len(wire[p]) >= 2
    /\ wire[p][Len(wire[p]) - 1].op = "auth"
    /\ wire[p][Len(wire[p]) - 1].key = << >>
    /\ LastAuth(wire[p]) # None
    /\ conn[p] = "handling"
    /\ cmd[p] = wire[p][Len(wire[p])]
    /\ res[p].ok /\ res[p].item # None
    /\ socket[p][Len(socket[p])] = Response_Ok

\* C34: an authenticated connection stays authenticated; its tenant is at
\* every moment the name of the most recent successful AUTH it has taken,
\* so a later successful AUTH replaces the tenant; and every attempt of a
\* data command, the first or a retried one, runs on the cabinet of the
\* most recent successful AUTH taken before the command.
C34_LatestAuthDecides ==
  /\ [](\A p \in Procs :
          /\ state[p].tenant = LastAuth(wire[p])
          /\ state[p].authenticated <=> LastAuth(wire[p]) # None)
  /\ [][\A p \in Procs :
          /\ state[p].authenticated => state'[p].authenticated
          /\ (Takes(p) /\ Taken(p).op \in DataOps /\ LastAuth(wire[p]) # None) =>
               /\ conn'[p] = "awaiting"
               /\ cmd'[p] = Taken(p)
          /\ (attempts'[p] # attempts[p] \/ Executed(p)) =>
               tenant'[p] = LastAuth(wire'[p])[1]
          /\ (pc[p] = "commit" /\ store' # store) =>
               tenant[p] = LastAuth(wire[p])[1]]_vars

C34_Witness ==
  \E p \in Procs :
    /\ Cardinality({wire[p][i].key : i \in SuccessfulAuths(wire[p])}) >= 2
    /\ LastAuth(wire[p]) = Some(<<97, 0, 20>>)
    /\ cmd[p] = wire[p][Len(wire[p])]
    /\ cmd[p].op = "put"
    /\ conn[p] = "handling"
    /\ ItemKey(Cabinet_new(p, <<97, 0, 20>>), cmd[p].key) \in DOMAIN store
    /\ DataKeys(store, <<97>>) # {}

\* C35: a shutdown signal that arrives while a connection handles a read
\* buffer waits in the receiver: the handler goes on with the buffer, and
\* when it observes the signal and exits, every command it has taken has run
\* to the end of its transaction and has its response on the socket, no
\* command of the buffer is left, and the socket is flushed.
C35_ShutdownWaitsForBuffer ==
  [][\A p \in Procs :
       /\ (shutdown_rx[p] /\ conn[p] \in {"handling", "awaiting"}) =>
            /\ conn'[p] # "shutdown"
            /\ shutdown_rx'[p]
       /\ (conn'[p] = "shutdown" /\ conn[p] # "shutdown") =>
            /\ conn[p] = "select"
            /\ requests[p] = << >>
            /\ pc[p] = "idle"
            /\ Len(socket[p]) = Len(wire[p])
            /\ flushed[p] = Len(socket[p])]_vars

C35_Witness ==
  \E p, q \in Procs :
    /\ conn[p] = "shutdown"
    /\ Len(wire[p]) >= 2
    /\ flushed[p] = Len(wire[p])
    /\ shutdown_rx[q]
    /\ conn[q] = "awaiting"
    /\ requests[q] # << >>

\* C36: the pair a STATS command returns is the count and the size of one
\* committed state of its tenant, the store as of the attempt that read
\* them, whatever other connections have in progress or commit afterwards;
\* the command writes nothing and what it returns is not changed by later
\* commits.
C36_StatsFromOneState ==
  [][\A p \in Procs :
       /\ (Executed(p) /\ cmd'[p].op = "stats") =>
            /\ res'[p].ok
            /\ res'[p].stats = Some([count |-> ReadCount(store, tenant[p]),
                                     size  |-> ReadSize(store, tenant[p])])
            /\ trx'[p].buffer = << >>
       /\ (pc[p] = "commit" /\ cmd[p].op = "stats" /\ ~Acts(p)) =>
            res'[p] = res[p]
       /\ (Reported(p) /\ cmd[p].op = "stats") => res'[p] = res[p]]_vars

C36_Witness ==
  \E p \in Procs :
    /\ Completed(p, "stats")
    /\ res[p].stats # None
    /\ res[p].stats[1].count >= 1
    /\ res[p].stats[1].size >= 1
    /\ ReadCount(store, tenant[p]) # res[p].stats[1].count
    /\ ReadSize(store, tenant[p]) # res[p].stats[1].size

\* C37: GET and STATS are read-only.  No step of a connection running one
\* of them, an attempt, a retry or its commit, changes the store (no data
\* key and no counter of any tenant), and none touches another connection:
\* the attempt buffers no write and records no read conflict key, and its
\* commit marks no other transaction as conflicting.
C37_GetAndStatsReadOnly ==
  [][\A p \in Procs :
       (Acts(p) /\ cmd'[p].op \in {"get", "stats"}) =>
         /\ store' = store
         /\ trx'[p].buffer = << >>
         /\ trx'[p].rc = {}
         /\ \A q \in Procs \ {p} :
              /\ conflicting'[q] = conflicting[q]
              /\ pc'[q] = pc[q]
              /\ trx'[q] = trx[q]]_vars

C37_Witness ==
  \E p, q \in Procs :
    /\ Completed(p, "get")
    /\ res[p].item # None
    /\ p # q
    /\ tenant[q] = tenant[p]
    /\ pc[q] = "commit"
    /\ cmd[q].op = "delete"
    /\ cmd[q].key = cmd[p].key
    /\ conflicting[q] = {}

\* connection handler p ends with an error in this step: a socket error or
\* an error propagated from a command
HandlerFails(p) == conn'[p] \in {"error", "read_error"} /\ conn[p] # conn'[p]

\* C38: connections are independent.  The accept loop is left only by the
\* interrupt signal: a handler that ends with an error and an accept that
\* returns an error leave the listener accepting and the other connections
\* where they are; and the tenant and the authenticated flag of a connection
\* change only by an AUTH that this connection takes from its own buffer.
C38_ConnectionsIndependent ==
  [][/\ (listener = "listening" /\ listener' # "listening") =>
          /\ listener' = "stopped"
          /\ run_result' = Some("Ok")
          /\ conn' = conn
          /\ faults' = faults
     /\ \A p \in Procs :
          /\ HandlerFails(p) =>
               /\ listener' = listener
               /\ \A q \in Procs \ {p} :
                    /\ conn'[q] = conn[q]
                    /\ state'[q] = state[q]
                    /\ requests'[q] = requests[q]
                    /\ socket'[q] = socket[q]
          /\ state'[p] # state[p] =>
               /\ Takes(p)
               /\ Taken(p).op = "auth"
               /\ \A q \in Procs \ {p} : state'[q] = state[q] /\ wire'[q] = wire[q]]_vars

C38_Witness ==
  \E p, q \in Procs :
    /\ listener = "listening"
    /\ conn[p] = "error"
    /\ faults >= 1
    /\ state[p].authenticated
    /\ state[q].authenticated
    /\ state[q].tenant # state[p].tenant
    /\ conn[q] = "awaiting"

\* C39: the loop over the command iterator ends on every read buffer.  A
\* call of next() on a remainder that is not empty returns an error or
\* leaves a shorter remainder, also when the remainder starts with a space
\* or is a lone newline and only Unknown applies; so the commands returned
\* are never more than the bytes of the buffer, and next() returns None in
\* the end.
C39_IteratorTerminates ==
  /\ [][(parsed' # parsed /\ scanner # << >>) =>
          \/ parsed'[Len(parsed')] = Some(ParseError)
          \/ Len(scanner') < Len(scanner)]_vars
  /\ [](Len(Yield) + Len(scanner) <= Len(Flatten(input)))
  /\ <>Exhausted

C39_Witness ==
  /\ Exhausted
  /\ Flatten(input)[1] \in {32, 10}
  /\ Len(Yield) = Len(Flatten(input))
  /\ Len(Yield) >= 2
  /\ \A i \in 1..Len(Yield) : parsed[i] = Some(Unknown)

====
